---- MODULE Spec2Model ----
(***************************************************************************)
(* A model of the firelight macro/expression engine (src/macro.py,         *)
(* src/ops.py, src/utils.py) and of the visit tracker of src/story.py.     *)
(*                                                                         *)
(* Conventions                                                             *)
(*  - A Python string is a sequence of one-character strings, so that the  *)
(*    scanners (MACRO_START, matching_brace, lex_expr, string_literal) are *)
(*    modelled character by character. Positions are Python's 0-based      *)
(*    indices: At(s, i) is s[i], Slice(s, a, b) is s[a:b].                 *)
(*    The backquote character is written Backquote, and a character that   *)
(*    is not printable ASCII by its code point, see Chr.                   *)
(*  - A Python value is a record of its type t and its payload, see PV.    *)
(*    A float is the IEEE 754 double, kept as the decimal that repr()      *)
(*    prints. A parse tree is a dictionary, see TreeItems.                 *)
(*  - A call returns a record whose field exc is "" for a normal return    *)
(*    and the name of the exception class when the call raises.            *)
(*  - EvalState dictionaries are mutable objects: they live in a heap      *)
(*    (world.heap, a sequence of dictionaries addressed by position) so    *)
(*    that copy.deepcopy and in-place mutation are told apart. The lists   *)
(*    and dictionaries they hold are objects too: each has an id, and an   *)
(*    edit in place reaches every name that refers to the object.          *)
(***************************************************************************)
EXTENDS Integers, Sequences, FiniteSets, Bags, TLC

(***************************************************************************)
(* Characters and Python string primitives                                 *)
(***************************************************************************)
Lower == {"a","b","c","d","e","f","g","h","i","j","k","l","m",
          "n","o","p","q","r","s","t","u","v","w","x","y","z"}
Upper == {"A","B","C","D","E","F","G","H","I","J","K","L","M",
          "N","O","P","Q","R","S","T","U","V","W","X","Y","Z"}
Digits == {"0","1","2","3","4","5","6","7","8","9"}
OctDigits == {"0","1","2","3","4","5","6","7"}
HexDigits == Digits \cup {"a","b","c","d","e","f","A","B","C","D","E","F"}
\* [a-zA-Z_] and [a-zA-Z_0-9.] of MACRO_START
NameStart == Lower \cup Upper \cup {"_"}
NameChar == NameStart \cup Digits \cup {"."}
\* The backquote (U+0060), the quote character of expression strings. A TLA+
\* string cannot hold it, so this two-letter string stands for that one
\* character.
Backquote == "bq"
\* the characters str.strip() removes, which are the \s of a regular
\* expression: the ones str.isspace() holds for
StripChars ==
  {" ", "\t", "\n", "\r", "\f",
   "u000b", "u001c", "u001d", "u001e", "u001f", "u0085", "u00a0", "u1680",
   "u2000", "u2001", "u2002", "u2003", "u2004", "u2005", "u2006", "u2007",
   "u2008", "u2009", "u200a", "u2028", "u2029", "u202f", "u205f", "u3000"}

At(s, i) == s[i + 1]

\* The printable ASCII characters in the order of their code points, from
\* the space (32) to the tilde (126).
Ascii ==
  <<" ", "!", "\"", "#", "$", "%", "&", "'", "(", ")", "*", "+", ",", "-", ".", "/",
    "0", "1", "2", "3", "4", "5", "6", "7", "8", "9", ":", ";", "<", "=", ">", "?", "@",
    "A", "B", "C", "D", "E", "F", "G", "H", "I", "J", "K", "L", "M", "N", "O", "P", "Q",
    "R", "S", "T", "U", "V", "W", "X", "Y", "Z", "[", "\\", "]", "^", "_", Backquote,
    "a", "b", "c", "d", "e", "f", "g", "h", "i", "j", "k", "l", "m", "n", "o", "p", "q",
    "r", "s", "t", "u", "v", "w", "x", "y", "z", "{", "|", "}", "~">>

\* chr(code) and ord(c). A character that is neither printable ASCII nor one
\* of "\t", "\n", "\r", "\f" is written as the letter u and its code point
\* in hexadecimal, at four digits or more: "u0008", "u00e9", "u1f600".
HexDigit(n) ==
  <<"0", "1", "2", "3", "4", "5", "6", "7", "8", "9", "a", "b", "c", "d", "e", "f">>[n + 1]
CodeName(code) ==
  "u" \o (IF code >= 16^5 THEN HexDigit(code \div 16^5) ELSE "")
      \o (IF code >= 16^4 THEN HexDigit((code \div 16^4) % 16) ELSE "")
      \o HexDigit((code \div 16^3) % 16) \o HexDigit((code \div 16^2) % 16)
      \o HexDigit((code \div 16) % 16) \o HexDigit(code % 16)
Chr(code) ==
  IF code \in 32..126 THEN Ascii[code - 31]
  ELSE CASE code = 9 -> "\t" [] code = 10 -> "\n" [] code = 12 -> "\f" [] code = 13 -> "\r"
         [] OTHER -> CodeName(code)
Ord(c) ==
  IF \E k \in 1..95 : Ascii[k] = c THEN 31 + CHOOSE k \in 1..95 : Ascii[k] = c
  ELSE CASE c = "\t" -> 9 [] c = "\n" -> 10 [] c = "\f" -> 12 [] c = "\r" -> 13
         [] OTHER -> CHOOSE code \in (IF Len(c) = 5 THEN 0..(16^4 - 1)
                                      ELSE IF Len(c) = 6 THEN 16^4..(16^5 - 1)
                                      ELSE 16^5..(17 * 16^4 - 1)) : CodeName(code) = c

\* The ranges of the code points that str.isprintable() refuses, which
\* repr() writes as escapes.
NotPrintable ==
  <<<<0, 31>>, <<127, 160>>, <<173, 173>>, <<888, 889>>, <<896, 899>>, <<907, 907>>, <<909,
    909>>, <<930, 930>>, <<1328, 1328>>, <<1367, 1368>>, <<1419, 1420>>, <<1424, 1424>>,
    <<1480, 1487>>, <<1515, 1518>>, <<1525, 1541>>, <<1564, 1564>>, <<1757, 1757>>, <<1806,
    1807>>, <<1867, 1868>>, <<1970, 1983>>, <<2043, 2044>>, <<2094, 2095>>, <<2111, 2111>>,
    <<2140, 2141>>, <<2143, 2143>>, <<2155, 2159>>, <<2191, 2199>>, <<2274, 2274>>, <<2436,
    2436>>, <<2445, 2446>>, <<2449, 2450>>, <<2473, 2473>>, <<2481, 2481>>, <<2483, 2485>>,
    <<2490, 2491>>, <<2501, 2502>>, <<2505, 2506>>, <<2511, 2518>>, <<2520, 2523>>, <<2526,
    2526>>, <<2532, 2533>>, <<2559, 2560>>, <<2564, 2564>>, <<2571, 2574>>, <<2577, 2578>>,
    <<2601, 2601>>, <<2609, 2609>>, <<2612, 2612>>, <<2615, 2615>>, <<2618, 2619>>, <<2621,
    2621>>, <<2627, 2630>>, <<2633, 2634>>, <<2638, 2640>>, <<2642, 2648>>, <<2653, 2653>>,
    <<2655, 2661>>, <<2679, 2688>>, <<2692, 2692>>, <<2702, 2702>>, <<2706, 2706>>, <<2729,
    2729>>, <<2737, 2737>>, <<2740, 2740>>, <<2746, 2747>>, <<2758, 2758>>, <<2762, 2762>>,
    <<2766, 2767>>, <<2769, 2783>>, <<2788, 2789>>, <<2802, 2808>>, <<2816, 2816>>, <<2820,
    2820>>, <<2829, 2830>>, <<2833, 2834>>, <<2857, 2857>>, <<2865, 2865>>, <<2868, 2868>>,
    <<2874, 2875>>, <<2885, 2886>>, <<2889, 2890>>, <<2894, 2900>>, <<2904, 2907>>, <<2910,
    2910>>, <<2916, 2917>>, <<2936, 2945>>, <<2948, 2948>>, <<2955, 2957>>, <<2961, 2961>>,
    <<2966, 2968>>, <<2971, 2971>>, <<2973, 2973>>, <<2976, 2978>>, <<2981, 2983>>, <<2987,
    2989>>, <<3002, 3005>>, <<3011, 3013>>, <<3017, 3017>>, <<3022, 3023>>, <<3025, 3030>>,
    <<3032, 3045>>, <<3067, 3071>>, <<3085, 3085>>, <<3089, 3089>>, <<3113, 3113>>, <<3130,
    3131>>, <<3141, 3141>>, <<3145, 3145>>, <<3150, 3156>>, <<3159, 3159>>, <<3163, 3164>>,
    <<3166, 3167>>, <<3172, 3173>>, <<3184, 3190>>, <<3213, 3213>>, <<3217, 3217>>, <<3241,
    3241>>, <<3252, 3252>>, <<3258, 3259>>, <<3269, 3269>>, <<3273, 3273>>, <<3278, 3284>>,
    <<3287, 3292>>, <<3295, 3295>>, <<3300, 3301>>, <<3312, 3312>>, <<3315, 3327>>, <<3341,
    3341>>, <<3345, 3345>>, <<3397, 3397>>, <<3401, 3401>>, <<3408, 3411>>, <<3428, 3429>>,
    <<3456, 3456>>, <<3460, 3460>>, <<3479, 3481>>, <<3506, 3506>>, <<3516, 3516>>, <<3518,
    3519>>, <<3527, 3529>>, <<3531, 3534>>, <<3541, 3541>>, <<3543, 3543>>, <<3552, 3557>>,
    <<3568, 3569>>, <<3573, 3584>>, <<3643, 3646>>, <<3676, 3712>>, <<3715, 3715>>, <<3717,
    3717>>, <<3723, 3723>>, <<3748, 3748>>, <<3750, 3750>>, <<3774, 3775>>, <<3781, 3781>>,
    <<3783, 3783>>, <<3790, 3791>>, <<3802, 3803>>, <<3808, 3839>>, <<3912, 3912>>, <<3949,
    3952>>, <<3992, 3992>>, <<4029, 4029>>, <<4045, 4045>>, <<4059, 4095>>, <<4294, 4294>>,
    <<4296, 4300>>, <<4302, 4303>>, <<4681, 4681>>, <<4686, 4687>>, <<4695, 4695>>, <<4697,
    4697>>, <<4702, 4703>>, <<4745, 4745>>, <<4750, 4751>>, <<4785, 4785>>, <<4790, 4791>>,
    <<4799, 4799>>, <<4801, 4801>>, <<4806, 4807>>, <<4823, 4823>>, <<4881, 4881>>, <<4886,
    4887>>, <<4955, 4956>>, <<4989, 4991>>, <<5018, 5023>>, <<5110, 5111>>, <<5118, 5119>>,
    <<5760, 5760>>, <<5789, 5791>>, <<5881, 5887>>, <<5910, 5918>>, <<5943, 5951>>, <<5972,
    5983>>, <<5997, 5997>>, <<6001, 6001>>, <<6004, 6015>>, <<6110, 6111>>, <<6122, 6127>>,
    <<6138, 6143>>, <<6158, 6158>>, <<6170, 6175>>, <<6265, 6271>>, <<6315, 6319>>, <<6390,
    6399>>, <<6431, 6431>>, <<6444, 6447>>, <<6460, 6463>>, <<6465, 6467>>, <<6510, 6511>>,
    <<6517, 6527>>, <<6572, 6575>>, <<6602, 6607>>, <<6619, 6621>>, <<6684, 6685>>, <<6751,
    6751>>, <<6781, 6782>>, <<6794, 6799>>, <<6810, 6815>>, <<6830, 6831>>, <<6863, 6911>>,
    <<6989, 6991>>, <<7039, 7039>>, <<7156, 7163>>, <<7224, 7226>>, <<7242, 7244>>, <<7305,
    7311>>, <<7355, 7356>>, <<7368, 7375>>, <<7419, 7423>>, <<7958, 7959>>, <<7966, 7967>>,
    <<8006, 8007>>, <<8014, 8015>>, <<8024, 8024>>, <<8026, 8026>>, <<8028, 8028>>, <<8030,
    8030>>, <<8062, 8063>>, <<8117, 8117>>, <<8133, 8133>>, <<8148, 8149>>, <<8156, 8156>>,
    <<8176, 8177>>, <<8181, 8181>>, <<8191, 8207>>, <<8232, 8239>>, <<8287, 8303>>, <<8306,
    8307>>, <<8335, 8335>>, <<8349, 8351>>, <<8385, 8399>>, <<8433, 8447>>, <<8588, 8591>>,
    <<9255, 9279>>, <<9291, 9311>>, <<11124, 11125>>, <<11158, 11158>>, <<11508, 11512>>,
    <<11558, 11558>>, <<11560, 11564>>, <<11566, 11567>>, <<11624, 11630>>, <<11633,
    11646>>, <<11671, 11679>>, <<11687, 11687>>, <<11695, 11695>>, <<11703, 11703>>,
    <<11711, 11711>>, <<11719, 11719>>, <<11727, 11727>>, <<11735, 11735>>, <<11743,
    11743>>, <<11870, 11903>>, <<11930, 11930>>, <<12020, 12031>>, <<12246, 12271>>,
    <<12284, 12288>>, <<12352, 12352>>, <<12439, 12440>>, <<12544, 12548>>, <<12592,
    12592>>, <<12687, 12687>>, <<12772, 12783>>, <<12831, 12831>>, <<42125, 42127>>,
    <<42183, 42191>>, <<42540, 42559>>, <<42744, 42751>>, <<42955, 42959>>, <<42962,
    42962>>, <<42964, 42964>>, <<42970, 42993>>, <<43053, 43055>>, <<43066, 43071>>,
    <<43128, 43135>>, <<43206, 43213>>, <<43226, 43231>>, <<43348, 43358>>, <<43389,
    43391>>, <<43470, 43470>>, <<43482, 43485>>, <<43519, 43519>>, <<43575, 43583>>,
    <<43598, 43599>>, <<43610, 43611>>, <<43715, 43738>>, <<43767, 43776>>, <<43783,
    43784>>, <<43791, 43792>>, <<43799, 43807>>, <<43815, 43815>>, <<43823, 43823>>,
    <<43884, 43887>>, <<44014, 44015>>, <<44026, 44031>>, <<55204, 55215>>, <<55239,
    55242>>, <<55292, 63743>>, <<64110, 64111>>, <<64218, 64255>>, <<64263, 64274>>,
    <<64280, 64284>>, <<64311, 64311>>, <<64317, 64317>>, <<64319, 64319>>, <<64322,
    64322>>, <<64325, 64325>>, <<64451, 64466>>, <<64912, 64913>>, <<64968, 64974>>,
    <<64976, 65007>>, <<65050, 65055>>, <<65107, 65107>>, <<65127, 65127>>, <<65132,
    65135>>, <<65141, 65141>>, <<65277, 65280>>, <<65471, 65473>>, <<65480, 65481>>,
    <<65488, 65489>>, <<65496, 65497>>, <<65501, 65503>>, <<65511, 65511>>, <<65519,
    65531>>, <<65534, 65535>>, <<65548, 65548>>, <<65575, 65575>>, <<65595, 65595>>,
    <<65598, 65598>>, <<65614, 65615>>, <<65630, 65663>>, <<65787, 65791>>, <<65795,
    65798>>, <<65844, 65846>>, <<65935, 65935>>, <<65949, 65951>>, <<65953, 65999>>,
    <<66046, 66175>>, <<66205, 66207>>, <<66257, 66271>>, <<66300, 66303>>, <<66340,
    66348>>, <<66379, 66383>>, <<66427, 66431>>, <<66462, 66462>>, <<66500, 66503>>,
    <<66518, 66559>>, <<66718, 66719>>, <<66730, 66735>>, <<66772, 66775>>, <<66812,
    66815>>, <<66856, 66863>>, <<66916, 66926>>, <<66939, 66939>>, <<66955, 66955>>,
    <<66963, 66963>>, <<66966, 66966>>, <<66978, 66978>>, <<66994, 66994>>, <<67002,
    67002>>, <<67005, 67071>>, <<67383, 67391>>, <<67414, 67423>>, <<67432, 67455>>,
    <<67462, 67462>>, <<67505, 67505>>, <<67515, 67583>>, <<67590, 67591>>, <<67593,
    67593>>, <<67638, 67638>>, <<67641, 67643>>, <<67645, 67646>>, <<67670, 67670>>,
    <<67743, 67750>>, <<67760, 67807>>, <<67827, 67827>>, <<67830, 67834>>, <<67868,
    67870>>, <<67898, 67902>>, <<67904, 67967>>, <<68024, 68027>>, <<68048, 68049>>,
    <<68100, 68100>>, <<68103, 68107>>, <<68116, 68116>>, <<68120, 68120>>, <<68150,
    68151>>, <<68155, 68158>>, <<68169, 68175>>, <<68185, 68191>>, <<68256, 68287>>,
    <<68327, 68330>>, <<68343, 68351>>, <<68406, 68408>>, <<68438, 68439>>, <<68467,
    68471>>, <<68498, 68504>>, <<68509, 68520>>, <<68528, 68607>>, <<68681, 68735>>,
    <<68787, 68799>>, <<68851, 68857>>, <<68904, 68911>>, <<68922, 69215>>, <<69247,
    69247>>, <<69290, 69290>>, <<69294, 69295>>, <<69298, 69375>>, <<69416, 69423>>,
    <<69466, 69487>>, <<69514, 69551>>, <<69580, 69599>>, <<69623, 69631>>, <<69710,
    69713>>, <<69750, 69758>>, <<69821, 69821>>, <<69827, 69839>>, <<69865, 69871>>,
    <<69882, 69887>>, <<69941, 69941>>, <<69960, 69967>>, <<70007, 70015>>, <<70112,
    70112>>, <<70133, 70143>>, <<70162, 70162>>, <<70207, 70271>>, <<70279, 70279>>,
    <<70281, 70281>>, <<70286, 70286>>, <<70302, 70302>>, <<70314, 70319>>, <<70379,
    70383>>, <<70394, 70399>>, <<70404, 70404>>, <<70413, 70414>>, <<70417, 70418>>,
    <<70441, 70441>>, <<70449, 70449>>, <<70452, 70452>>, <<70458, 70458>>, <<70469,
    70470>>, <<70473, 70474>>, <<70478, 70479>>, <<70481, 70486>>, <<70488, 70492>>,
    <<70500, 70501>>, <<70509, 70511>>, <<70517, 70655>>, <<70748, 70748>>, <<70754,
    70783>>, <<70856, 70863>>, <<70874, 71039>>, <<71094, 71095>>, <<71134, 71167>>,
    <<71237, 71247>>, <<71258, 71263>>, <<71277, 71295>>, <<71354, 71359>>, <<71370,
    71423>>, <<71451, 71452>>, <<71468, 71471>>, <<71495, 71679>>, <<71740, 71839>>,
    <<71923, 71934>>, <<71943, 71944>>, <<71946, 71947>>, <<71956, 71956>>, <<71959,
    71959>>, <<71990, 71990>>, <<71993, 71994>>, <<72007, 72015>>, <<72026, 72095>>,
    <<72104, 72105>>, <<72152, 72153>>, <<72165, 72191>>, <<72264, 72271>>, <<72355,
    72367>>, <<72441, 72703>>, <<72713, 72713>>, <<72759, 72759>>, <<72774, 72783>>,
    <<72813, 72815>>, <<72848, 72849>>, <<72872, 72872>>, <<72887, 72959>>, <<72967,
    72967>>, <<72970, 72970>>, <<73015, 73017>>, <<73019, 73019>>, <<73022, 73022>>,
    <<73032, 73039>>, <<73050, 73055>>, <<73062, 73062>>, <<73065, 73065>>, <<73103,
    73103>>, <<73106, 73106>>, <<73113, 73119>>, <<73130, 73439>>, <<73465, 73647>>,
    <<73649, 73663>>, <<73714, 73726>>, <<74650, 74751>>, <<74863, 74863>>, <<74869,
    74879>>, <<75076, 77711>>, <<77811, 77823>>, <<78895, 82943>>, <<83527, 92159>>,
    <<92729, 92735>>, <<92767, 92767>>, <<92778, 92781>>, <<92863, 92863>>, <<92874,
    92879>>, <<92910, 92911>>, <<92918, 92927>>, <<92998, 93007>>, <<93018, 93018>>,
    <<93026, 93026>>, <<93048, 93052>>, <<93072, 93759>>, <<93851, 93951>>, <<94027,
    94030>>, <<94088, 94094>>, <<94112, 94175>>, <<94181, 94191>>, <<94194, 94207>>,
    <<100344, 100351>>, <<101590, 101631>>, <<101641, 110575>>, <<110580, 110580>>,
    <<110588, 110588>>, <<110591, 110591>>, <<110883, 110927>>, <<110931, 110947>>,
    <<110952, 110959>>, <<111356, 113663>>, <<113771, 113775>>, <<113789, 113791>>,
    <<113801, 113807>>, <<113818, 113819>>, <<113824, 118527>>, <<118574, 118575>>,
    <<118599, 118607>>, <<118724, 118783>>, <<119030, 119039>>, <<119079, 119080>>,
    <<119155, 119162>>, <<119275, 119295>>, <<119366, 119519>>, <<119540, 119551>>,
    <<119639, 119647>>, <<119673, 119807>>, <<119893, 119893>>, <<119965, 119965>>,
    <<119968, 119969>>, <<119971, 119972>>, <<119975, 119976>>, <<119981, 119981>>,
    <<119994, 119994>>, <<119996, 119996>>, <<120004, 120004>>, <<120070, 120070>>,
    <<120075, 120076>>, <<120085, 120085>>, <<120093, 120093>>, <<120122, 120122>>,
    <<120127, 120127>>, <<120133, 120133>>, <<120135, 120137>>, <<120145, 120145>>,
    <<120486, 120487>>, <<120780, 120781>>, <<121484, 121498>>, <<121504, 121504>>,
    <<121520, 122623>>, <<122655, 122879>>, <<122887, 122887>>, <<122905, 122906>>,
    <<122914, 122914>>, <<122917, 122917>>, <<122923, 123135>>, <<123181, 123183>>,
    <<123198, 123199>>, <<123210, 123213>>, <<123216, 123535>>, <<123567, 123583>>,
    <<123642, 123646>>, <<123648, 124895>>, <<124903, 124903>>, <<124908, 124908>>,
    <<124911, 124911>>, <<124927, 124927>>, <<125125, 125126>>, <<125143, 125183>>,
    <<125260, 125263>>, <<125274, 125277>>, <<125280, 126064>>, <<126133, 126208>>,
    <<126270, 126463>>, <<126468, 126468>>, <<126496, 126496>>, <<126499, 126499>>,
    <<126501, 126502>>, <<126504, 126504>>, <<126515, 126515>>, <<126520, 126520>>,
    <<126522, 126522>>, <<126524, 126529>>, <<126531, 126534>>, <<126536, 126536>>,
    <<126538, 126538>>, <<126540, 126540>>, <<126544, 126544>>, <<126547, 126547>>,
    <<126549, 126550>>, <<126552, 126552>>, <<126554, 126554>>, <<126556, 126556>>,
    <<126558, 126558>>, <<126560, 126560>>, <<126563, 126563>>, <<126565, 126566>>,
    <<126571, 126571>>, <<126579, 126579>>, <<126584, 126584>>, <<126589, 126589>>,
    <<126591, 126591>>, <<126602, 126602>>, <<126620, 126624>>, <<126628, 126628>>,
    <<126634, 126634>>, <<126652, 126703>>, <<126706, 126975>>, <<127020, 127023>>,
    <<127124, 127135>>, <<127151, 127152>>, <<127168, 127168>>, <<127184, 127184>>,
    <<127222, 127231>>, <<127406, 127461>>, <<127491, 127503>>, <<127548, 127551>>,
    <<127561, 127567>>, <<127570, 127583>>, <<127590, 127743>>, <<128728, 128732>>,
    <<128749, 128751>>, <<128765, 128767>>, <<128884, 128895>>, <<128985, 128991>>,
    <<129004, 129007>>, <<129009, 129023>>, <<129036, 129039>>, <<129096, 129103>>,
    <<129114, 129119>>, <<129160, 129167>>, <<129198, 129199>>, <<129202, 129279>>,
    <<129620, 129631>>, <<129646, 129647>>, <<129653, 129655>>, <<129661, 129663>>,
    <<129671, 129679>>, <<129709, 129711>>, <<129723, 129727>>, <<129734, 129743>>,
    <<129754, 129759>>, <<129768, 129775>>, <<129783, 129791>>, <<129939, 129939>>,
    <<129995, 130031>>, <<130042, 131071>>, <<173792, 173823>>, <<177977, 177983>>,
    <<178206, 178207>>, <<183970, 183983>>, <<191457, 194559>>, <<195102, 196607>>,
    <<201547, 917759>>, <<918000, 1114111>>>>
IsPrintable(code) ==
  \A k \in 1..Len(NotPrintable) : code < NotPrintable[k][1] \/ code > NotPrintable[k][2]

\* The \w of a regular expression: the underscore and the characters
\* str.isalnum() holds for, whose ranges above ASCII are these.
WordRanges ==
  <<<<170, 170>>, <<178, 179>>, <<181, 181>>, <<185, 186>>, <<188, 190>>, <<192, 214>>,
    <<216, 246>>, <<248, 705>>, <<710, 721>>, <<736, 740>>, <<748, 748>>, <<750, 750>>,
    <<880, 884>>, <<886, 887>>, <<890, 893>>, <<895, 895>>, <<902, 902>>, <<904, 906>>,
    <<908, 908>>, <<910, 929>>, <<931, 1013>>, <<1015, 1153>>, <<1162, 1327>>, <<1329,
    1366>>, <<1369, 1369>>, <<1376, 1416>>, <<1488, 1514>>, <<1519, 1522>>, <<1568, 1610>>,
    <<1632, 1641>>, <<1646, 1647>>, <<1649, 1747>>, <<1749, 1749>>, <<1765, 1766>>, <<1774,
    1788>>, <<1791, 1791>>, <<1808, 1808>>, <<1810, 1839>>, <<1869, 1957>>, <<1969, 1969>>,
    <<1984, 2026>>, <<2036, 2037>>, <<2042, 2042>>, <<2048, 2069>>, <<2074, 2074>>, <<2084,
    2084>>, <<2088, 2088>>, <<2112, 2136>>, <<2144, 2154>>, <<2160, 2183>>, <<2185, 2190>>,
    <<2208, 2249>>, <<2308, 2361>>, <<2365, 2365>>, <<2384, 2384>>, <<2392, 2401>>, <<2406,
    2415>>, <<2417, 2432>>, <<2437, 2444>>, <<2447, 2448>>, <<2451, 2472>>, <<2474, 2480>>,
    <<2482, 2482>>, <<2486, 2489>>, <<2493, 2493>>, <<2510, 2510>>, <<2524, 2525>>, <<2527,
    2529>>, <<2534, 2545>>, <<2548, 2553>>, <<2556, 2556>>, <<2565, 2570>>, <<2575, 2576>>,
    <<2579, 2600>>, <<2602, 2608>>, <<2610, 2611>>, <<2613, 2614>>, <<2616, 2617>>, <<2649,
    2652>>, <<2654, 2654>>, <<2662, 2671>>, <<2674, 2676>>, <<2693, 2701>>, <<2703, 2705>>,
    <<2707, 2728>>, <<2730, 2736>>, <<2738, 2739>>, <<2741, 2745>>, <<2749, 2749>>, <<2768,
    2768>>, <<2784, 2785>>, <<2790, 2799>>, <<2809, 2809>>, <<2821, 2828>>, <<2831, 2832>>,
    <<2835, 2856>>, <<2858, 2864>>, <<2866, 2867>>, <<2869, 2873>>, <<2877, 2877>>, <<2908,
    2909>>, <<2911, 2913>>, <<2918, 2927>>, <<2929, 2935>>, <<2947, 2947>>, <<2949, 2954>>,
    <<2958, 2960>>, <<2962, 2965>>, <<2969, 2970>>, <<2972, 2972>>, <<2974, 2975>>, <<2979,
    2980>>, <<2984, 2986>>, <<2990, 3001>>, <<3024, 3024>>, <<3046, 3058>>, <<3077, 3084>>,
    <<3086, 3088>>, <<3090, 3112>>, <<3114, 3129>>, <<3133, 3133>>, <<3160, 3162>>, <<3165,
    3165>>, <<3168, 3169>>, <<3174, 3183>>, <<3192, 3198>>, <<3200, 3200>>, <<3205, 3212>>,
    <<3214, 3216>>, <<3218, 3240>>, <<3242, 3251>>, <<3253, 3257>>, <<3261, 3261>>, <<3293,
    3294>>, <<3296, 3297>>, <<3302, 3311>>, <<3313, 3314>>, <<3332, 3340>>, <<3342, 3344>>,
    <<3346, 3386>>, <<3389, 3389>>, <<3406, 3406>>, <<3412, 3414>>, <<3416, 3425>>, <<3430,
    3448>>, <<3450, 3455>>, <<3461, 3478>>, <<3482, 3505>>, <<3507, 3515>>, <<3517, 3517>>,
    <<3520, 3526>>, <<3558, 3567>>, <<3585, 3632>>, <<3634, 3635>>, <<3648, 3654>>, <<3664,
    3673>>, <<3713, 3714>>, <<3716, 3716>>, <<3718, 3722>>, <<3724, 3747>>, <<3749, 3749>>,
    <<3751, 3760>>, <<3762, 3763>>, <<3773, 3773>>, <<3776, 3780>>, <<3782, 3782>>, <<3792,
    3801>>, <<3804, 3807>>, <<3840, 3840>>, <<3872, 3891>>, <<3904, 3911>>, <<3913, 3948>>,
    <<3976, 3980>>, <<4096, 4138>>, <<4159, 4169>>, <<4176, 4181>>, <<4186, 4189>>, <<4193,
    4193>>, <<4197, 4198>>, <<4206, 4208>>, <<4213, 4225>>, <<4238, 4238>>, <<4240, 4249>>,
    <<4256, 4293>>, <<4295, 4295>>, <<4301, 4301>>, <<4304, 4346>>, <<4348, 4680>>, <<4682,
    4685>>, <<4688, 4694>>, <<4696, 4696>>, <<4698, 4701>>, <<4704, 4744>>, <<4746, 4749>>,
    <<4752, 4784>>, <<4786, 4789>>, <<4792, 4798>>, <<4800, 4800>>, <<4802, 4805>>, <<4808,
    4822>>, <<4824, 4880>>, <<4882, 4885>>, <<4888, 4954>>, <<4969, 4988>>, <<4992, 5007>>,
    <<5024, 5109>>, <<5112, 5117>>, <<5121, 5740>>, <<5743, 5759>>, <<5761, 5786>>, <<5792,
    5866>>, <<5870, 5880>>, <<5888, 5905>>, <<5919, 5937>>, <<5952, 5969>>, <<5984, 5996>>,
    <<5998, 6000>>, <<6016, 6067>>, <<6103, 6103>>, <<6108, 6108>>, <<6112, 6121>>, <<6128,
    6137>>, <<6160, 6169>>, <<6176, 6264>>, <<6272, 6276>>, <<6279, 6312>>, <<6314, 6314>>,
    <<6320, 6389>>, <<6400, 6430>>, <<6470, 6509>>, <<6512, 6516>>, <<6528, 6571>>, <<6576,
    6601>>, <<6608, 6618>>, <<6656, 6678>>, <<6688, 6740>>, <<6784, 6793>>, <<6800, 6809>>,
    <<6823, 6823>>, <<6917, 6963>>, <<6981, 6988>>, <<6992, 7001>>, <<7043, 7072>>, <<7086,
    7141>>, <<7168, 7203>>, <<7232, 7241>>, <<7245, 7293>>, <<7296, 7304>>, <<7312, 7354>>,
    <<7357, 7359>>, <<7401, 7404>>, <<7406, 7411>>, <<7413, 7414>>, <<7418, 7418>>, <<7424,
    7615>>, <<7680, 7957>>, <<7960, 7965>>, <<7968, 8005>>, <<8008, 8013>>, <<8016, 8023>>,
    <<8025, 8025>>, <<8027, 8027>>, <<8029, 8029>>, <<8031, 8061>>, <<8064, 8116>>, <<8118,
    8124>>, <<8126, 8126>>, <<8130, 8132>>, <<8134, 8140>>, <<8144, 8147>>, <<8150, 8155>>,
    <<8160, 8172>>, <<8178, 8180>>, <<8182, 8188>>, <<8304, 8305>>, <<8308, 8313>>, <<8319,
    8329>>, <<8336, 8348>>, <<8450, 8450>>, <<8455, 8455>>, <<8458, 8467>>, <<8469, 8469>>,
    <<8473, 8477>>, <<8484, 8484>>, <<8486, 8486>>, <<8488, 8488>>, <<8490, 8493>>, <<8495,
    8505>>, <<8508, 8511>>, <<8517, 8521>>, <<8526, 8526>>, <<8528, 8585>>, <<9312, 9371>>,
    <<9450, 9471>>, <<10102, 10131>>, <<11264, 11492>>, <<11499, 11502>>, <<11506, 11507>>,
    <<11517, 11517>>, <<11520, 11557>>, <<11559, 11559>>, <<11565, 11565>>, <<11568,
    11623>>, <<11631, 11631>>, <<11648, 11670>>, <<11680, 11686>>, <<11688, 11694>>,
    <<11696, 11702>>, <<11704, 11710>>, <<11712, 11718>>, <<11720, 11726>>, <<11728,
    11734>>, <<11736, 11742>>, <<11823, 11823>>, <<12293, 12295>>, <<12321, 12329>>,
    <<12337, 12341>>, <<12344, 12348>>, <<12353, 12438>>, <<12445, 12447>>, <<12449,
    12538>>, <<12540, 12543>>, <<12549, 12591>>, <<12593, 12686>>, <<12690, 12693>>,
    <<12704, 12735>>, <<12784, 12799>>, <<12832, 12841>>, <<12872, 12879>>, <<12881,
    12895>>, <<12928, 12937>>, <<12977, 12991>>, <<13312, 19903>>, <<19968, 42124>>,
    <<42192, 42237>>, <<42240, 42508>>, <<42512, 42539>>, <<42560, 42606>>, <<42623,
    42653>>, <<42656, 42735>>, <<42775, 42783>>, <<42786, 42888>>, <<42891, 42954>>,
    <<42960, 42961>>, <<42963, 42963>>, <<42965, 42969>>, <<42994, 43009>>, <<43011,
    43013>>, <<43015, 43018>>, <<43020, 43042>>, <<43056, 43061>>, <<43072, 43123>>,
    <<43138, 43187>>, <<43216, 43225>>, <<43250, 43255>>, <<43259, 43259>>, <<43261,
    43262>>, <<43264, 43301>>, <<43312, 43334>>, <<43360, 43388>>, <<43396, 43442>>,
    <<43471, 43481>>, <<43488, 43492>>, <<43494, 43518>>, <<43520, 43560>>, <<43584,
    43586>>, <<43588, 43595>>, <<43600, 43609>>, <<43616, 43638>>, <<43642, 43642>>,
    <<43646, 43695>>, <<43697, 43697>>, <<43701, 43702>>, <<43705, 43709>>, <<43712,
    43712>>, <<43714, 43714>>, <<43739, 43741>>, <<43744, 43754>>, <<43762, 43764>>,
    <<43777, 43782>>, <<43785, 43790>>, <<43793, 43798>>, <<43808, 43814>>, <<43816,
    43822>>, <<43824, 43866>>, <<43868, 43881>>, <<43888, 44002>>, <<44016, 44025>>,
    <<44032, 55203>>, <<55216, 55238>>, <<55243, 55291>>, <<63744, 64109>>, <<64112,
    64217>>, <<64256, 64262>>, <<64275, 64279>>, <<64285, 64285>>, <<64287, 64296>>,
    <<64298, 64310>>, <<64312, 64316>>, <<64318, 64318>>, <<64320, 64321>>, <<64323,
    64324>>, <<64326, 64433>>, <<64467, 64829>>, <<64848, 64911>>, <<64914, 64967>>,
    <<65008, 65019>>, <<65136, 65140>>, <<65142, 65276>>, <<65296, 65305>>, <<65313,
    65338>>, <<65345, 65370>>, <<65382, 65470>>, <<65474, 65479>>, <<65482, 65487>>,
    <<65490, 65495>>, <<65498, 65500>>, <<65536, 65547>>, <<65549, 65574>>, <<65576,
    65594>>, <<65596, 65597>>, <<65599, 65613>>, <<65616, 65629>>, <<65664, 65786>>,
    <<65799, 65843>>, <<65856, 65912>>, <<65930, 65931>>, <<66176, 66204>>, <<66208,
    66256>>, <<66273, 66299>>, <<66304, 66339>>, <<66349, 66378>>, <<66384, 66421>>,
    <<66432, 66461>>, <<66464, 66499>>, <<66504, 66511>>, <<66513, 66517>>, <<66560,
    66717>>, <<66720, 66729>>, <<66736, 66771>>, <<66776, 66811>>, <<66816, 66855>>,
    <<66864, 66915>>, <<66928, 66938>>, <<66940, 66954>>, <<66956, 66962>>, <<66964,
    66965>>, <<66967, 66977>>, <<66979, 66993>>, <<66995, 67001>>, <<67003, 67004>>,
    <<67072, 67382>>, <<67392, 67413>>, <<67424, 67431>>, <<67456, 67461>>, <<67463,
    67504>>, <<67506, 67514>>, <<67584, 67589>>, <<67592, 67592>>, <<67594, 67637>>,
    <<67639, 67640>>, <<67644, 67644>>, <<67647, 67669>>, <<67672, 67702>>, <<67705,
    67742>>, <<67751, 67759>>, <<67808, 67826>>, <<67828, 67829>>, <<67835, 67867>>,
    <<67872, 67897>>, <<67968, 68023>>, <<68028, 68047>>, <<68050, 68096>>, <<68112,
    68115>>, <<68117, 68119>>, <<68121, 68149>>, <<68160, 68168>>, <<68192, 68222>>,
    <<68224, 68255>>, <<68288, 68295>>, <<68297, 68324>>, <<68331, 68335>>, <<68352,
    68405>>, <<68416, 68437>>, <<68440, 68466>>, <<68472, 68497>>, <<68521, 68527>>,
    <<68608, 68680>>, <<68736, 68786>>, <<68800, 68850>>, <<68858, 68899>>, <<68912,
    68921>>, <<69216, 69246>>, <<69248, 69289>>, <<69296, 69297>>, <<69376, 69415>>,
    <<69424, 69445>>, <<69457, 69460>>, <<69488, 69505>>, <<69552, 69579>>, <<69600,
    69622>>, <<69635, 69687>>, <<69714, 69743>>, <<69745, 69746>>, <<69749, 69749>>,
    <<69763, 69807>>, <<69840, 69864>>, <<69872, 69881>>, <<69891, 69926>>, <<69942,
    69951>>, <<69956, 69956>>, <<69959, 69959>>, <<69968, 70002>>, <<70006, 70006>>,
    <<70019, 70066>>, <<70081, 70084>>, <<70096, 70106>>, <<70108, 70108>>, <<70113,
    70132>>, <<70144, 70161>>, <<70163, 70187>>, <<70272, 70278>>, <<70280, 70280>>,
    <<70282, 70285>>, <<70287, 70301>>, <<70303, 70312>>, <<70320, 70366>>, <<70384,
    70393>>, <<70405, 70412>>, <<70415, 70416>>, <<70419, 70440>>, <<70442, 70448>>,
    <<70450, 70451>>, <<70453, 70457>>, <<70461, 70461>>, <<70480, 70480>>, <<70493,
    70497>>, <<70656, 70708>>, <<70727, 70730>>, <<70736, 70745>>, <<70751, 70753>>,
    <<70784, 70831>>, <<70852, 70853>>, <<70855, 70855>>, <<70864, 70873>>, <<71040,
    71086>>, <<71128, 71131>>, <<71168, 71215>>, <<71236, 71236>>, <<71248, 71257>>,
    <<71296, 71338>>, <<71352, 71352>>, <<71360, 71369>>, <<71424, 71450>>, <<71472,
    71483>>, <<71488, 71494>>, <<71680, 71723>>, <<71840, 71922>>, <<71935, 71942>>,
    <<71945, 71945>>, <<71948, 71955>>, <<71957, 71958>>, <<71960, 71983>>, <<71999,
    71999>>, <<72001, 72001>>, <<72016, 72025>>, <<72096, 72103>>, <<72106, 72144>>,
    <<72161, 72161>>, <<72163, 72163>>, <<72192, 72192>>, <<72203, 72242>>, <<72250,
    72250>>, <<72272, 72272>>, <<72284, 72329>>, <<72349, 72349>>, <<72368, 72440>>,
    <<72704, 72712>>, <<72714, 72750>>, <<72768, 72768>>, <<72784, 72812>>, <<72818,
    72847>>, <<72960, 72966>>, <<72968, 72969>>, <<72971, 73008>>, <<73030, 73030>>,
    <<73040, 73049>>, <<73056, 73061>>, <<73063, 73064>>, <<73066, 73097>>, <<73112,
    73112>>, <<73120, 73129>>, <<73440, 73458>>, <<73648, 73648>>, <<73664, 73684>>,
    <<73728, 74649>>, <<74752, 74862>>, <<74880, 75075>>, <<77712, 77808>>, <<77824,
    78894>>, <<82944, 83526>>, <<92160, 92728>>, <<92736, 92766>>, <<92768, 92777>>,
    <<92784, 92862>>, <<92864, 92873>>, <<92880, 92909>>, <<92928, 92975>>, <<92992,
    92995>>, <<93008, 93017>>, <<93019, 93025>>, <<93027, 93047>>, <<93053, 93071>>,
    <<93760, 93846>>, <<93952, 94026>>, <<94032, 94032>>, <<94099, 94111>>, <<94176,
    94177>>, <<94179, 94179>>, <<94208, 100343>>, <<100352, 101589>>, <<101632, 101640>>,
    <<110576, 110579>>, <<110581, 110587>>, <<110589, 110590>>, <<110592, 110882>>,
    <<110928, 110930>>, <<110948, 110951>>, <<110960, 111355>>, <<113664, 113770>>,
    <<113776, 113788>>, <<113792, 113800>>, <<113808, 113817>>, <<119520, 119539>>,
    <<119648, 119672>>, <<119808, 119892>>, <<119894, 119964>>, <<119966, 119967>>,
    <<119970, 119970>>, <<119973, 119974>>, <<119977, 119980>>, <<119982, 119993>>,
    <<119995, 119995>>, <<119997, 120003>>, <<120005, 120069>>, <<120071, 120074>>,
    <<120077, 120084>>, <<120086, 120092>>, <<120094, 120121>>, <<120123, 120126>>,
    <<120128, 120132>>, <<120134, 120134>>, <<120138, 120144>>, <<120146, 120485>>,
    <<120488, 120512>>, <<120514, 120538>>, <<120540, 120570>>, <<120572, 120596>>,
    <<120598, 120628>>, <<120630, 120654>>, <<120656, 120686>>, <<120688, 120712>>,
    <<120714, 120744>>, <<120746, 120770>>, <<120772, 120779>>, <<120782, 120831>>,
    <<122624, 122654>>, <<123136, 123180>>, <<123191, 123197>>, <<123200, 123209>>,
    <<123214, 123214>>, <<123536, 123565>>, <<123584, 123627>>, <<123632, 123641>>,
    <<124896, 124902>>, <<124904, 124907>>, <<124909, 124910>>, <<124912, 124926>>,
    <<124928, 125124>>, <<125127, 125135>>, <<125184, 125251>>, <<125259, 125259>>,
    <<125264, 125273>>, <<126065, 126123>>, <<126125, 126127>>, <<126129, 126132>>,
    <<126209, 126253>>, <<126255, 126269>>, <<126464, 126467>>, <<126469, 126495>>,
    <<126497, 126498>>, <<126500, 126500>>, <<126503, 126503>>, <<126505, 126514>>,
    <<126516, 126519>>, <<126521, 126521>>, <<126523, 126523>>, <<126530, 126530>>,
    <<126535, 126535>>, <<126537, 126537>>, <<126539, 126539>>, <<126541, 126543>>,
    <<126545, 126546>>, <<126548, 126548>>, <<126551, 126551>>, <<126553, 126553>>,
    <<126555, 126555>>, <<126557, 126557>>, <<126559, 126559>>, <<126561, 126562>>,
    <<126564, 126564>>, <<126567, 126570>>, <<126572, 126578>>, <<126580, 126583>>,
    <<126585, 126588>>, <<126590, 126590>>, <<126592, 126601>>, <<126603, 126619>>,
    <<126625, 126627>>, <<126629, 126633>>, <<126635, 126651>>, <<127232, 127244>>,
    <<130032, 130041>>, <<131072, 173791>>, <<173824, 177976>>, <<177984, 178205>>,
    <<178208, 183969>>, <<183984, 191456>>, <<194560, 195101>>, <<196608, 201546>>>>
IsWord(c) ==
  \/ c \in Lower \cup Upper \cup Digits \cup {"_"}
  \/ /\ c \notin StripChars /\ c # Backquote /\ \A k \in 1..95 : Ascii[k] # c
     /\ \E k \in 1..Len(WordRanges) : Ord(c) >= WordRanges[k][1] /\ Ord(c) <= WordRanges[k][2]

Min2(a, b) == IF a < b THEN a ELSE b
Max2(a, b) == IF a > b THEN a ELSE b

\* s[a:b] for 0 <= a, as Python clamps it
Slice(s, a, b) ==
  LET hi == Min2(b, Len(s))
  IN IF a >= hi THEN <<>> ELSE SubSeq(s, a + 1, hi)

\* s[a:]
SliceFrom(s, a) == Slice(s, a, Len(s))

RECURSIVE LStrip(_)
LStrip(s) == IF s # <<>> /\ Head(s) \in StripChars THEN LStrip(Tail(s)) ELSE s

RECURSIVE RStrip(_)
RStrip(s) ==
  IF s # <<>> /\ s[Len(s)] \in StripChars THEN RStrip(SubSeq(s, 1, Len(s) - 1)) ELSE s

\* str.strip()
Strip(s) == RStrip(LStrip(s))

\* ''.join(bits) / sep.join(bits)
RECURSIVE Join(_, _)
Join(sep, bits) ==
  IF bits = <<>> THEN <<>>
  ELSE IF Len(bits) = 1 THEN bits[1]
  ELSE bits[1] \o sep \o Join(sep, Tail(bits))

\* number of occurrences of character c in s: s.count(c)
RECURSIVE Count(_, _)
Count(s, c) ==
  IF s = <<>> THEN 0 ELSE (IF Head(s) = c THEN 1 ELSE 0) + Count(Tail(s), c)

\* position of the first c in s, or -1
RECURSIVE IndexOf(_, _, _)
IndexOf(s, c, i) ==
  IF i >= Len(s) THEN -1 ELSE IF At(s, i) = c THEN i ELSE IndexOf(s, c, i + 1)

(***************************************************************************)
(* Results and exceptions                                                  *)
(***************************************************************************)
Raise(e) == [exc |-> e]
Ok(v) == [exc |-> "", val |-> v]

(***************************************************************************)
(* Scanners: MACRO_START, utils.matching_brace, utils.string_literal       *)
(***************************************************************************)
\* length of the longest run of characters of class cls in s from position i
RECURSIVE RunLen(_, _, _)
RunLen(s, i, cls) ==
  IF i < Len(s) /\ At(s, i) \in cls THEN 1 + RunLen(s, i + 1, cls) ELSE 0

\* MACRO_START.match at position p: "(" then [a-zA-Z_][a-zA-Z_0-9.]+ then "~".
\* "~" is not a name character, so only the longest run of name characters
\* can be followed by it.
MacroStartAt(s, p) ==
  /\ p + 2 < Len(s)
  /\ At(s, p) = "("
  /\ At(s, p + 1) \in NameStart
  /\ RunLen(s, p + 2, NameChar) >= 1
  /\ p + 2 + RunLen(s, p + 2, NameChar) < Len(s)
  /\ At(s, p + 2 + RunLen(s, p + 2, NameChar)) = "~"

\* MACRO_START.search(s, i): the leftmost match at or after i.
\* found = FALSE is Python's None; end is ms.end(), name is ms.group(1).
RECURSIVE MACRO_START_search(_, _)
MACRO_START_search(s, i) ==
  IF i >= Len(s) THEN [found |-> FALSE]
  ELSE IF MacroStartAt(s, i)
    THEN LET n == 1 + RunLen(s, i + 2, NameChar)
         IN [found |-> TRUE, start |-> i, end |-> i + 1 + n + 1,
             name |-> Slice(s, i + 1, i + 1 + n)]
    ELSE MACRO_START_search(s, i + 1)

\* the for loop of utils.matching_brace, from position i
RECURSIVE matching_brace_loop(_, _, _, _, _, _, _)
matching_brace_loop(src, i, op, cl, layer, quoted, escaped) ==
  IF i >= Len(src) THEN Raise("UnmatchedError")
  ELSE LET c == At(src, i) IN
    IF c = "\\" THEN matching_brace_loop(src, i + 1, op, cl, layer, quoted, ~escaped)
    ELSE IF escaped THEN matching_brace_loop(src, i + 1, op, cl, layer, quoted, FALSE)
    ELSE IF c = "\"" THEN matching_brace_loop(src, i + 1, op, cl, layer, ~quoted, escaped)
    ELSE IF quoted THEN matching_brace_loop(src, i + 1, op, cl, layer, quoted, escaped)
    ELSE IF c = cl THEN
      IF layer < 0 THEN Raise("RuntimeError")
      ELSE IF layer = 0 THEN Ok(i)
      ELSE matching_brace_loop(src, i + 1, op, cl, layer - 1, quoted, escaped)
    ELSE IF c = op THEN matching_brace_loop(src, i + 1, op, cl, layer + 1, quoted, escaped)
    ELSE matching_brace_loop(src, i + 1, op, cl, layer, quoted, escaped)

\* utils.matching_brace(src, idx, op, cl): index of the matching close
matching_brace(src, idx, op, cl) ==
  matching_brace_loop(src, idx + 1, op, cl, 0, FALSE, FALSE)

\* the for loop of utils.string_literal, from position i
RECURSIVE string_literal_loop(_, _, _, _, _)
string_literal_loop(src, i, qc, escaped, result) ==
  IF i >= Len(src) THEN Raise("UnmatchedError")
  ELSE LET c == At(src, i) IN
    IF escaped THEN
      string_literal_loop(src, i + 1, qc, FALSE,
        IF c = qc THEN Append(result, qc)
        ELSE IF c = "\\" THEN Append(result, "\\")
        ELSE IF c = "n" THEN Append(result, "\n")
        ELSE IF c = "r" THEN Append(result, "\r")
        ELSE IF c = "t" THEN Append(result, "\t")
        ELSE result \o <<"\\", c>>)
    ELSE IF c = "\\" THEN string_literal_loop(src, i + 1, qc, TRUE, result)
    ELSE IF c = qc THEN Ok(<<i, result>>)
    ELSE string_literal_loop(src, i + 1, qc, FALSE, Append(result, c))

\* utils.string_literal(src, idx, qc): (end index, content)
string_literal(src, idx, qc) == string_literal_loop(src, idx + 1, qc, FALSE, <<>>)

\* split_macro_args(content): its first statement calls
\* utils.find_quoted_regions, which utils.py does not define, so every call
\* raises AttributeError before anything is split.
split_macro_args(content) == Raise("AttributeError")

(***************************************************************************)
(* Python floats: IEEE 754 doubles. float() of a decimal text and the sum  *)
(* of two floats are rounded to the nearest double, ties to even, and a    *)
(* float is kept as the shortest decimal that reads back as that double,   *)
(* which is the decimal repr() prints.                                     *)
(***************************************************************************)
\* A natural number of any size is a sequence of limbs in base 10^4, the
\* lowest limb first and the highest limb not 0; <<>> is 0.
Base == 10000

\* The operators of this arithmetic call each other through the one
\* recursive operator Arith, which applies the operator that is named to
\* the arguments a.
RECURSIVE Arith(_, _)

\* a without its high limbs that are 0
BigNorm(a) ==
  IF \A i \in DOMAIN a : a[i] = 0 THEN <<>>
  ELSE SubSeq(a, 1, CHOOSE i \in DOMAIN a : a[i] # 0 /\ \A j \in (i + 1)..Len(a) : a[j] = 0)

Limb(a, i) == IF i \in DOMAIN a THEN a[i] ELSE 0

\* -1, 0 or 1 as a < b, a = b or a > b
BigCmp(a, b) ==
  IF Len(a) # Len(b) THEN (IF Len(a) < Len(b) THEN -1 ELSE 1)
  ELSE IF a = b THEN 0
  ELSE IF LET i == CHOOSE i \in DOMAIN a : a[i] # b[i] /\ \A j \in (i + 1)..Len(a) : a[j] = b[j]
          IN a[i] < b[i]
    THEN -1 ELSE 1

\* whether a carry enters limb i of the limb sums x: some limb below it
\* overflows and every limb between the two is full
BigCarry(x, i) ==
  \E j \in 1..(i - 1) : x[j] >= Base /\ \A k \in (j + 1)..(i - 1) : x[k] = Base - 1
BigAddLimbs(x) ==
  BigNorm(SubSeq([i \in 1..(Len(x) + 1) |->
                    (Limb(x, i) + (IF BigCarry(x, i) THEN 1 ELSE 0)) % Base], 1, Len(x) + 1))
BigAdd(a, b) ==
  BigAddLimbs(SubSeq([i \in 1..Max2(Len(a), Len(b)) |-> Limb(a, i) + Limb(b, i)],
                     1, Max2(Len(a), Len(b))))

\* a - b for a >= b
BigBorrow(x, i) ==
  \E j \in 1..(i - 1) : x[j] < 0 /\ \A k \in (j + 1)..(i - 1) : x[k] = 0
BigSubLimbs(x) ==
  BigNorm(SubSeq([i \in 1..Len(x) |-> (x[i] - (IF BigBorrow(x, i) THEN 1 ELSE 0) + Base) % Base],
                 1, Len(x)))
BigSub(a, b) == BigSubLimbs(SubSeq([i \in 1..Len(a) |-> a[i] - Limb(b, i)], 1, Len(a)))

\* the sum of the values of a function to the naturals
Sum(f) == BagCardinality([i \in {j \in DOMAIN f : f[j] > 0} |-> f[i]])

\* a * b: column k collects the low halves of the limb products a[i] * b[j]
\* with i + j = k + 1 and the high halves of those with i + j = k
BigColumn(a, b, k) ==
  Sum([i \in Max2(1, k + 1 - Len(b))..Min2(Len(a), k) |-> (a[i] * b[k + 1 - i]) % Base])
    + Sum([i \in Max2(1, k - Len(b))..Min2(Len(a), k - 1) |-> (a[i] * b[k - i]) \div Base])
BigMulColumns(c) ==
  BigAdd(BigNorm(SubSeq([k \in DOMAIN c |-> c[k] % Base], 1, Len(c))),
         BigNorm(<<0>> \o SubSeq([k \in DOMAIN c |-> c[k] \div Base], 1, Len(c))))
BigMul(a, b) ==
  IF a = <<>> \/ b = <<>> THEN <<>>
  ELSE BigMulColumns(SubSeq([k \in 1..(Len(a) + Len(b)) |-> BigColumn(a, b, k)],
                            1, Len(a) + Len(b)))

\* b^k by repeated squaring
RECURSIVE BigPower(_, _)
BigPower(b, k) ==
  LET Squared(h2) == IF k % 2 = 0 THEN h2 ELSE Arith("BigMul", <<b, h2>>)
      Half(h) == Squared(Arith("BigMul", <<h, h>>))
  IN IF k = 0 THEN <<1>> ELSE Half(BigPower(b, k \div 2))

\* a * 2^k, a * 5^k and a * 10^k
BigTimes2(a, k) == Arith("BigMul", <<a, Arith("BigPower", <<<<2>>, k>>)>>)
BigTimes5(a, k) == Arith("BigMul", <<a, Arith("BigPower", <<<<5>>, k>>)>>)
BigTimes10(a, k) ==
  IF a = <<>> THEN <<>> ELSE [i \in 1..(k \div 4) |-> 0] \o Arith("BigMul", <<a, <<10^(k % 4)>>>>)

\* the number written by the decimal digits ds, and the decimal digits of a
\* (none for 0)
BigFromDigits(ds) ==
  LET Digit(r) == IF r < Len(ds) THEN ds[Len(ds) - r] ELSE 0
  IN BigNorm(SubSeq([i \in 1..((Len(ds) + 3) \div 4) |->
                       Digit(4 * i - 4) + 10 * Digit(4 * i - 3) + 100 * Digit(4 * i - 2)
                         + 1000 * Digit(4 * i - 1)], 1, (Len(ds) + 3) \div 4))
StripZeros(ds) ==
  IF \A p \in DOMAIN ds : ds[p] = 0 THEN <<>>
  ELSE SubSeq(ds, CHOOSE p \in DOMAIN ds : ds[p] # 0 /\ \A q \in 1..(p - 1) : ds[q] = 0, Len(ds))
BigToDigits(a) ==
  StripZeros(SubSeq([p \in 1..(4 * Len(a)) |->
                       (a[Len(a) - ((p - 1) \div 4)] \div 10^(3 - ((p - 1) % 4))) % 10],
                    1, 4 * Len(a)))

\* n divided by d, decimal digit by decimal digit from the digit of weight
\* 10^i down: r is what is left of n and q the digits found
RECURSIVE BigDivDigits(_, _, _, _)
BigDivDigits(r, d, i, q) ==
  LET Fits(di, c) == BigCmp(Arith("BigMul", <<di, <<c>>>>), r) <= 0
      Digit(di, c) == BigDivDigits(BigSub(r, Arith("BigMul", <<di, <<c>>>>)), d, i - 1, Append(q, c))
      Step(di) == Digit(di, CHOOSE c \in 0..9 : Fits(di, c) /\ (c = 9 \/ ~Fits(di, c + 1)))
  IN IF i < 0 THEN <<BigFromDigits(q), r>> ELSE Step(BigTimes10(d, i))

\* <<n div d, n mod d>> for d > 0
BigDivMod(n, d) ==
  BigDivDigits(n, d, Max2(Len(BigToDigits(n)) - Len(BigToDigits(d)), 0), <<>>)

\* floor(log2(a)) for a > 0, or up to 2 less
BigLog2(a) ==
  LET Log2(x) == CHOOSE k \in 0..26 : 2^k <= x /\ x < 2^(k + 1)
  IN IF Len(a) = 1 THEN Log2(a[1])
     ELSE Log2(a[Len(a)] * Base + a[Len(a) - 1]) + ((Len(a) - 2) * 132877) \div 10000

\* whether p / q >= 2^k
RatioReaches(p, q, k) ==
  IF k >= 0 THEN BigCmp(p, BigTimes2(q, k)) >= 0 ELSE BigCmp(BigTimes2(p, -k), q) >= 0

\* The double nearest to p / q (p > 0, q > 0), ties to the even mantissa:
\* [m, e] for m * 2^e with m < 2^53 and e >= -1074, m >= 2^52 unless
\* e = -1074; m = <<>> when the ratio rounds to 0 and e > 971 when it is
\* beyond the largest double.
RoundQuotient(qr, d, e) ==
  LET Up(c) == c > 0 \/ (c = 0 /\ Limb(qr[1], 1) % 2 = 1)
      Rounded(m) ==
        IF m = Arith("BigPower", <<<<2>>, 53>>)
        THEN [m |-> Arith("BigPower", <<<<2>>, 52>>), e |-> e + 1]
        ELSE [m |-> m, e |-> e]
  IN Rounded(IF Up(BigCmp(Arith("BigMul", <<qr[2], <<2>>>>), d)) THEN BigAdd(qr[1], <<1>>)
             ELSE qr[1])
RoundRatioAt(p, q, e) ==
  LET Divided(n, d) == RoundQuotient(Arith("BigDivMod", <<n, d>>), d, e)
  IN Divided(BigTimes2(p, Max2(-e, 0)), BigTimes2(q, Max2(e, 0)))
RoundRatio(p, q) ==
  LET At2(k) == RatioReaches(p, q, k)
      Log(est) == CHOOSE k \in (est - 3)..(est + 2) : At2(k) /\ ~At2(k + 1)
  IN RoundRatioAt(p, q, Max2(Log(BigLog2(p) - BigLog2(q)) - 52, -1074))

\* -1, 0 or 1 as the digits x are less than, equal to or more than the
\* digits y, shorter digits filled up with zeros at their end
DigitsCmp(x, y) ==
  LET n == Max2(Len(x), Len(y))
      X(p) == IF p <= Len(x) THEN x[p] ELSE 0
      Y(p) == IF p <= Len(y) THEN y[p] ELSE 0
  IN IF \A p \in 1..n : X(p) = Y(p) THEN 0
     ELSE IF LET p == CHOOSE p \in 1..n : X(p) # Y(p) /\ \A r \in 1..(p - 1) : X(r) = Y(r)
             IN X(p) < Y(p)
       THEN -1 ELSE 1

\* The shortest decimal that reads back as the double m * 2^e, the one
\* repr() prints.  dl, dv and dh are the digits, at the same length, of the
\* lower end of the double's rounding interval, of the double and of the
\* upper end; the ends belong to the interval when m is even.  With n digits
\* kept, the candidates are dv cut after them and that number plus one in
\* its last digit; when both read back as the double the nearer one is
\* taken, and of two equally near ones the one whose last digit is even.
ShortestDown(dv, z, n) == SubSeq([p \in DOMAIN dv |-> IF p <= z + n THEN dv[p] ELSE 0], 1, Len(dv))
ShortestUp(dv, z, n) ==
  IF \A p \in 1..(z + n) : dv[p] = 9 THEN <<>>
  ELSE LET p == CHOOSE p \in 1..(z + n) : dv[p] # 9 /\ \A r \in (p + 1)..(z + n) : dv[r] = 9
       IN SubSeq([r \in DOMAIN dv |-> IF r < p THEN dv[r] ELSE IF r = p THEN dv[p] + 1 ELSE 0],
                 1, Len(dv))
ShortestInside(dl, c, dh, incl) ==
  /\ c # <<>>
  /\ Arith("DigitsCmp", <<dl, c>>) < (IF incl THEN 1 ELSE 0)
  /\ Arith("DigitsCmp", <<c, dh>>) < (IF incl THEN 1 ELSE 0)
RECURSIVE ShortestDigits(_, _, _, _, _, _)
ShortestDigits(dl, dv, dh, incl, z, n) ==
  LET Inside(c) == ShortestInside(dl, c, dh, incl)
      Nearest(down, up, half) ==
        IF half < 0 \/ (half = 0 /\ dv[z + n] % 2 = 0) THEN down ELSE up
      Picked(down, up, din, uin) ==
        IF din /\ uin
        THEN Nearest(down, up, Arith("DigitsCmp", <<SubSeq(dv, z + n + 1, Len(dv)), <<5>>>>))
        ELSE IF din THEN down
        ELSE IF uin THEN up
        ELSE ShortestDigits(dl, dv, dh, incl, z, n + 1)
      Pick(down, up) == Picked(down, up, Inside(down), Inside(up))
  IN IF z + n >= Len(dv) THEN dv ELSE Pick(ShortestDown(dv, z, n), ShortestUp(dv, z, n))

\* digits without the zeros at their end
StripZerosEnd(ds) ==
  IF \A p \in DOMAIN ds : ds[p] = 0 THEN <<>>
  ELSE SubSeq(ds, 1, CHOOSE p \in DOMAIN ds : ds[p] # 0 /\ \A q \in (p + 1)..Len(ds) : ds[q] = 0)

\* <<digits, exponent>> of repr(m * 2^e): x is the decimal exponent of the
\* digits dl, dv, dh
ShortestOf(dl, dv, dh, incl, x) ==
  LET Pad(ds) == [p \in 1..(Len(dh) - Len(ds)) |-> 0] \o ds
      Cut(c) == <<StripZeros(StripZerosEnd(c)), x + Len(c) - Len(StripZerosEnd(c))>>
  IN Cut(ShortestDigits(Pad(dl), Pad(dv), dh, incl, Len(dh) - Len(dv), 1))
ShortestBetween(v, unit, narrow, incl, x) ==
  ShortestOf(BigToDigits(BigSub(v, Arith("BigMul", <<unit, <<IF narrow THEN 1 ELSE 2>>>>))),
             BigToDigits(v), BigToDigits(BigAdd(v, Arith("BigMul", <<unit, <<2>>>>))), incl, x)
BinaryToDecimal(m, e) ==
  LET Between(unit) ==
        ShortestBetween(Arith("BigMul", <<Arith("BigMul", <<m, <<4>>>>), unit>>), unit,
                        m = Arith("BigPower", <<<<2>>, 52>>) /\ e > -1074, m[1] % 2 = 0,
                        IF e >= 2 THEN 0 ELSE e - 2)
  IN Between(Arith("BigPower", IF e >= 2 THEN <<<<2>>, e - 2>> ELSE <<<<5>>, 2 - e>>))

\* A float is [k, s, d, e]: k is "fin", "inf" or "nan", s is 1 or -1, and a
\* finite float is s * d * 10^e for the decimal digits d that repr() prints,
\* without zeros at either end (no digits for 0.0).
FloatFinite(s, d, e) == [k |-> "fin", s |-> s, d |-> d, e |-> e]
FloatZero(s) == FloatFinite(s, <<>>, 0)
FloatInf(s) == [k |-> "inf", s |-> s, d |-> <<>>, e |-> 0]
FloatNan == [k |-> "nan", s |-> 1, d |-> <<>>, e |-> 0]

\* the float nearest to s * p / q
FloatOfBinary(s, b) ==
  IF b.m = <<>> THEN FloatZero(s)
  ELSE IF b.e > 971 THEN FloatInf(s)
  ELSE LET Dec(de) == FloatFinite(s, de[1], de[2])
       IN Dec(Arith("BinaryToDecimal", <<b.m, b.e>>))
FloatOfRatio(s, p, q) ==
  IF p = <<>> THEN FloatZero(s) ELSE FloatOfBinary(s, Arith("RoundRatio", <<p, q>>))

\* float() of the decimal s * digits * 10^x
FloatOfDecimal(s, digits, x) ==
  LET d == StripZeros(digits) IN
  IF d = <<>> THEN FloatZero(s)
  ELSE IF Len(d) + x > 309 THEN FloatInf(s)
  ELSE IF Len(d) + x < -323 THEN FloatZero(s)
  ELSE Arith("FloatOfRatio", <<s, BigTimes10(BigFromDigits(d), Max2(x, 0)),
                                BigTimes10(<<1>>, Max2(-x, 0))>>)

\* the double [m, e] that the finite float f, not 0.0, is
FloatBinary(f) ==
  Arith("RoundRatio", <<BigTimes10(BigFromDigits(f.d), Max2(f.e, 0)),
                        BigTimes10(<<1>>, Max2(-f.e, 0))>>)

\* float(n) for an integer below 2^53
RECURSIVE NatDigits(_)
NatDigits(n) == IF n = 0 THEN <<>> ELSE Append(NatDigits(n \div 10), n % 10)

\* float() of the text of a number: the sign s, the digits before and after
\* the point, frac of them after it, and the exponent, ex its value in limbs
\* and neg its sign.  The exponent is read whatever its length: the place of
\* the first digit, Len(d) - frac plus the exponent, is worked out in limbs.
\* A number whose first digit is more than 400 places from the point is inf
\* or 0.0 as the one 400 places from it is.
FloatOfLiteral(s, digits, frac, neg, ex) ==
  LET InLimbs(n) == BigFromDigits(NatDigits(n))
      Capped(mag) == IF BigCmp(mag, <<400>>) > 0 THEN 400 ELSE Limb(mag, 1)
      Signed(negative, mag) == IF negative THEN 0 - Capped(mag) ELSE Capped(mag)
      Place(a, am) ==
        IF (a < 0) = neg THEN Signed(neg, BigAdd(am, ex))
        ELSE IF BigCmp(am, ex) >= 0 THEN Signed(a < 0, BigSub(am, ex))
        ELSE Signed(neg, BigSub(ex, am))
      First(d) == Place(Len(d) - frac, InLimbs(IF Len(d) < frac THEN frac - Len(d) ELSE Len(d) - frac))
  IN Arith("FloatOfDecimal",
           <<s, StripZeros(digits), First(StripZeros(digits)) - Len(StripZeros(digits))>>)
FloatOfInt(n) ==
  LET d == NatDigits(IF n < 0 THEN -n ELSE n)
  IN FloatFinite(IF n < 0 THEN -1 ELSE 1, StripZerosEnd(d), Len(d) - Len(StripZerosEnd(d)))

\* "lt", "eq" or "gt" for two floats, "un" when one of them is nan
FloatMagCmp(a, b) ==
  IF a.d = <<>> \/ b.d = <<>> THEN (IF a.d # <<>> THEN 1 ELSE IF b.d # <<>> THEN -1 ELSE 0)
  ELSE IF Len(a.d) + a.e # Len(b.d) + b.e THEN (IF Len(a.d) + a.e < Len(b.d) + b.e THEN -1 ELSE 1)
  ELSE DigitsCmp(a.d, b.d)
FloatCmp(a, b) ==
  LET Signed(f) == IF f.k = "fin" /\ f.d = <<>> THEN 0 ELSE f.s
      Of(sa, sb, mag) ==
        IF sa # sb THEN (IF sa < sb THEN "lt" ELSE "gt")
        ELSE IF sa * mag < 0 THEN "lt" ELSE IF sa * mag > 0 THEN "gt" ELSE "eq"
  IN IF a.k = "nan" \/ b.k = "nan" THEN "un"
     ELSE Of(Signed(a), Signed(b),
             IF a.k = "inf" \/ b.k = "inf"
             THEN (IF a.k = b.k THEN 0 ELSE IF a.k = "inf" THEN 1 ELSE -1)
             ELSE FloatMagCmp(a, b))

\* a + b on two floats
FloatSum(sa, x, sb, y, e) ==
  LET Scaled(s, n) ==
        Arith("FloatOfRatio", <<s, BigTimes2(n, Max2(e, 0)), Arith("BigPower", <<<<2>>, Max2(-e, 0)>>)>>)
      Of(c) ==
        IF sa = sb THEN Scaled(sa, BigAdd(x, y))
        ELSE IF c = 0 THEN FloatZero(1)
        ELSE IF c > 0 THEN Scaled(sa, BigSub(x, y))
        ELSE Scaled(sb, BigSub(y, x))
  IN Of(BigCmp(x, y))
FloatAddBinary(a, ba, b, bb) ==
  LET Shifted(ms) == FloatSum(a.s, ms[1], b.s, ms[2], Min2(ba.e, bb.e))
  IN Shifted(SubSeq([i \in 1..2 |->
                       BigTimes2(<<ba, bb>>[i].m, <<ba, bb>>[i].e - Min2(ba.e, bb.e))], 1, 2))
FloatAdd(a, b) ==
  IF a.k = "nan" \/ b.k = "nan" THEN FloatNan
  ELSE IF a.k = "inf" /\ b.k = "inf" THEN (IF a.s = b.s THEN a ELSE FloatNan)
  ELSE IF a.k = "inf" THEN a
  ELSE IF b.k = "inf" THEN b
  ELSE IF a.d = <<>> /\ b.d = <<>> THEN FloatZero(IF a.s = -1 /\ b.s = -1 THEN -1 ELSE 1)
  ELSE IF a.d = <<>> THEN b
  ELSE IF b.d = <<>> THEN a
  ELSE LET Added(bs) == FloatAddBinary(a, bs[1], b, bs[2])
       IN Added(SubSeq([i \in 1..2 |-> FloatBinary(<<a, b>>[i])], 1, 2))

Arith(fn, a) ==
  CASE fn = "BigMul" -> BigMul(a[1], a[2])
    [] fn = "BigPower" -> BigPower(a[1], a[2])
    [] fn = "BigDivMod" -> BigDivMod(a[1], a[2])
    [] fn = "RoundRatio" -> RoundRatio(a[1], a[2])
    [] fn = "DigitsCmp" -> DigitsCmp(a[1], a[2])
    [] fn = "BinaryToDecimal" -> BinaryToDecimal(a[1], a[2])
    [] fn = "FloatOfRatio" -> FloatOfRatio(a[1], a[2], a[3])
    [] fn = "FloatOfDecimal" -> FloatOfDecimal(a[1], a[2], a[3])
    [] fn = "FloatAdd" -> FloatAdd(a[1], a[2])

\* repr(f), the text str(f) gives
DigitChars(ds) == [p \in DOMAIN ds |-> <<"0", "1", "2", "3", "4", "5", "6", "7", "8", "9">>[ds[p] + 1]]
FloatRepr(f) ==
  LET sign == IF f.s = -1 THEN <<"-">> ELSE <<>>
      n == Len(f.d)
      pt == n + f.e
      x == IF pt - 1 < 0 THEN 1 - pt ELSE pt - 1
      zeros(k) == [p \in 1..k |-> "0"]
  IN IF f.k = "nan" THEN <<"n", "a", "n">>
     ELSE IF f.k = "inf" THEN sign \o <<"i", "n", "f">>
     ELSE IF n = 0 THEN sign \o <<"0", ".", "0">>
     ELSE IF pt > 16 \/ pt < -3
       THEN sign \o DigitChars(SubSeq(f.d, 1, 1))
              \o (IF n > 1 THEN <<".">> \o DigitChars(SubSeq(f.d, 2, n)) ELSE <<>>)
              \o <<"e", IF pt - 1 < 0 THEN "-" ELSE "+">>
              \o (IF x < 10 THEN <<"0">> ELSE <<>>) \o DigitChars(NatDigits(x))
     ELSE IF pt <= 0 THEN sign \o <<"0", ".">> \o zeros(-pt) \o DigitChars(f.d)
     ELSE IF pt >= n THEN sign \o DigitChars(f.d) \o zeros(pt - n) \o <<".", "0">>
     ELSE sign \o DigitChars(SubSeq(f.d, 1, pt)) \o <<".">> \o DigitChars(SubSeq(f.d, pt + 1, n))

(***************************************************************************)
(* Python values                                                           *)
(***************************************************************************)
NoneV == [t |-> "none"]
BoolV(b) == [t |-> "bool", b |-> b]
IntV(n) == [t |-> "int", i |-> n]
StrV(s) == [t |-> "str", s |-> s]
\* A list and a dictionary are objects that several names can refer to: id
\* names the object, and is 0 for one that nothing else refers to.
ListV(l) == [t |-> "list", l |-> l, id |-> 0]
DictV(d) == [t |-> "dict", d |-> d, id |-> 0]
TupleV(l) == [t |-> "tuple", u |-> l]
\* a function object (a module finder); v is the finder itself
FuncV(f) == [t |-> "func", fn |-> f]
\* a parse tree (a Python dictionary) and an operator as values
TreeV(tree) == [t |-> "tree", tree |-> tree]
OpV(sym) == [t |-> "op", sym |-> sym]
\* macro.VariableLookup(name) and macro.FunctionCall(name, args)
VariableLookup(name) == [t |-> "VariableLookup", name |-> name]
FunctionCall(name, args) == [t |-> "FunctionCall", call |-> <<name, args>>]

\* the float s * m * 10^e of a decimal constant
FloatV(m, e) ==
  [t |-> "float",
   f |-> Arith("FloatOfDecimal", <<IF m < 0 THEN -1 ELSE 1, NatDigits(IF m < 0 THEN -m ELSE m), e>>)]

\* The payload of a value. Each type keeps its payload in a field of its own,
\* so that two values of different types are never compared payload by payload.
PV(a) ==
  CASE a.t = "bool" -> a.b
    [] a.t = "int" -> a.i
    [] a.t = "float" -> a.f
    [] a.t = "str" -> a.s
    [] a.t = "list" -> a.l
    [] a.t = "tuple" -> a.u
    [] a.t = "dict" -> a.d
    [] a.t = "func" -> a.fn
    [] a.t = "tree" -> a.tree
    [] a.t = "op" -> a.sym
    [] a.t = "VariableLookup" -> a.name
    [] a.t = "FunctionCall" -> a.call

\* bool(val)
Truthy(val) ==
  CASE val.t = "none" -> FALSE
    [] val.t = "bool" -> PV(val)
    [] val.t = "int" -> PV(val) # 0
    [] val.t = "float" -> PV(val).k # "fin" \/ PV(val).d # <<>>
    [] val.t = "str" -> PV(val) # <<>>
    [] val.t \in {"list", "tuple"} -> PV(val) # <<>>
    [] val.t = "dict" -> DOMAIN PV(val) # {}
    [] OTHER -> TRUE

(***************************************************************************)
(* lex_expr                                                                *)
(***************************************************************************)
Unit(ut, uv) ==
  CASE ut = "int" -> [ut |-> ut, n |-> uv]
    [] ut = "float" -> [ut |-> ut, f |-> uv]
    [] ut \in {"op", "group", "index"} -> [ut |-> ut, sym |-> uv]
    [] OTHER -> [ut |-> ut, s |-> uv]

\* the value of a unit
UV(u) ==
  CASE u.ut = "int" -> u.n
    [] u.ut = "float" -> u.f
    [] u.ut \in {"op", "group", "index"} -> u.sym
    [] OTHER -> u.s

\* the characters that end an accumulated word (macro.py line 114)
WordEnd == {"(", ")", "[", "]", "+", "-", "%", "&", "|", ".", "/", "*", "^",
            "=", "<", ">", "!", "\"", "'"}
LexSpace == {" ", "\n", "\r", "\t"}

\* c+c and c+'=' as operator symbols
Doubled(c) ==
  CASE c = "/" -> "//" [] c = "*" -> "**" [] c = "%" -> "%%" [] c = "^" -> "^^"
WithEq(c) ==
  CASE c = "<" -> "<=" [] c = ">" -> ">=" [] c = "!" -> "!="

DigitVal(c) ==
  CASE c = "0" -> 0 [] c = "1" -> 1 [] c = "2" -> 2 [] c = "3" -> 3 [] c = "4" -> 4
    [] c = "5" -> 5 [] c = "6" -> 6 [] c = "7" -> 7 [] c = "8" -> 8 [] c = "9" -> 9
    [] c \in {"a", "A"} -> 10 [] c \in {"b", "B"} -> 11 [] c \in {"c", "C"} -> 12
    [] c \in {"d", "D"} -> 13 [] c \in {"e", "E"} -> 14 [] c \in {"f", "F"} -> 15

\* int(digits, base) for a non-empty run of digits valid in that base
RECURSIVE DigitsValue(_, _)
DigitsValue(ds, base) ==
  IF ds = <<>> THEN 0
  ELSE DigitsValue(SubSeq(ds, 1, Len(ds) - 1), base) * base + DigitVal(ds[Len(ds)])

AllIn(ds, cls) == \A k \in 1..Len(ds) : ds[k] \in cls

\* the digits that a run of digit characters spells, and the value of the
\* digits of an exponent, of any length, in limbs
DigitsOf(ds) == SubSeq([k \in 1..Len(ds) |-> DigitVal(ds[k])], 1, Len(ds))
ExponentValue(ds) == BigFromDigits(StripZeros(DigitsOf(ds)))

\* INT_CONSTANT.match(expr, i) at a digit: ([+-])?(0[xo])?([0-9A-Fa-f])+ .
\* prefix is m.group(2) ("" when the group did not take part), digits the
\* run of hex digits after it, end is m.end().
INT_CONSTANT_match(expr, i) ==
  LET pre == /\ i + 2 < Len(expr)
             /\ At(expr, i) = "0"
             /\ At(expr, i + 1) \in {"x", "o"}
             /\ At(expr, i + 2) \in HexDigits
      from == IF pre THEN i + 2 ELSE i
      end == from + RunLen(expr, from, HexDigits)
  IN [prefix |-> IF pre THEN At(expr, i + 1) ELSE "",
      digits |-> Slice(expr, from, end),
      end |-> end]

\* the try block of macro.py lines 179-190: int(m.group(0), base), where a
\* ValueError falls through to the float match
IntOfMatch(m) ==
  IF m.prefix = "x" THEN Ok(DigitsValue(m.digits, 16))
  ELSE IF m.prefix = "o"
    THEN IF AllIn(m.digits, OctDigits) THEN Ok(DigitsValue(m.digits, 8))
         ELSE Raise("ValueError")
  ELSE IF AllIn(m.digits, Digits) THEN Ok(DigitsValue(m.digits, 10))
  ELSE Raise("ValueError")

\* FLOAT_CONSTANT.match(expr, i) at a digit:
\* ([+-])?([0-9]+)(\.[0-9]*)?([eE][+-]?[0-9]+)? , and float(m.group(0))
FLOAT_CONSTANT_match(expr, i) ==
  LET \* the digits up to p1, the fraction frac, the end p4 and the exponent:
      \* its sign neg and its value ex
      Match(p1, frac, p4, neg, ex) ==
        [p1 |-> p1, frac |-> frac, end |-> p4, neg |-> neg, ex |-> ex]
      \* group 4 with its n digits from p3, where it takes part
      Exponent(p1, frac, p2, hasExp, neg, p3, n) ==
        Match(p1, frac, IF hasExp THEN p3 + n ELSE p2, hasExp /\ neg,
              IF hasExp THEN ExponentValue(Slice(expr, p3, p3 + n)) ELSE <<>>)
      Signed(p1, frac, p2, isE, signed, p3) ==
        Exponent(p1, frac, p2, isE /\ RunLen(expr, p3, Digits) >= 1,
                 signed /\ At(expr, p2 + 1) = "-", p3, RunLen(expr, p3, Digits))
      Marked(p1, frac, p2, isE, signed) ==
        Signed(p1, frac, p2, isE, signed, IF signed THEN p2 + 2 ELSE p2 + 1)
      \* group 3, from the point at p1 to p2
      Fraction(p1, hasFrac, p2, isE) ==
        Marked(p1, IF hasFrac THEN Slice(expr, p1 + 1, p2) ELSE <<>>, p2, isE,
               isE /\ p2 + 1 < Len(expr) /\ At(expr, p2 + 1) \in {"+", "-"})
      Pointed(p1, hasFrac, p2) ==
        Fraction(p1, hasFrac, p2, p2 < Len(expr) /\ At(expr, p2) \in {"e", "E"})
      Whole(p1, hasFrac) ==
        Pointed(p1, hasFrac, IF hasFrac THEN p1 + 1 + RunLen(expr, p1 + 1, Digits) ELSE p1)
      m == Whole(i + RunLen(expr, i, Digits),
                 i + RunLen(expr, i, Digits) < Len(expr)
                   /\ At(expr, i + RunLen(expr, i, Digits)) = ".")
  IN [end |-> m.end,
      value |-> FloatOfLiteral(1, DigitsOf(Slice(expr, i, m.p1) \o m.frac), Len(m.frac), m.neg, m.ex)]

NoWord == [some |-> FALSE, s |-> <<>>]
Word(s) == [some |-> TRUE, s |-> s]
\* sval += more, or sval = more when sval is None
Grow(sv, more) == Word(sv.s \o more)

\* The while loop of lex_expr. i is the index before "i += 1"; sv is sval.
RECURSIVE lex_loop(_, _, _, _)
lex_loop(expr, i, sv, units) ==
  IF ~(i < Len(expr) - 1)
  THEN Ok(IF sv.some THEN Append(units, Unit("word", sv.s)) ELSE units)
  ELSE
    LET j == i + 1
        c == At(expr, j)
        flush == c \in WordEnd /\ sv.some
        u1 == IF flush THEN Append(units, Unit("word", sv.s)) ELSE units
        s1 == IF flush THEN NoWord ELSE sv
        hasNext == j + 1 < Len(expr)
    IN
    IF c \in LexSpace THEN
      IF s1.some THEN lex_loop(expr, j, NoWord, Append(u1, Unit("word", s1.s)))
      ELSE lex_loop(expr, j, s1, u1)
    ELSE IF c = "(" THEN
      LET m == MACRO_START_search(expr, j) IN
      IF ~m.found THEN Raise("AttributeError")      \* m.start() of None
      ELSE IF m.start = j THEN
        LET e == matching_brace(expr, j, "(", ")") IN
        IF e.exc # "" THEN e
        ELSE lex_loop(expr, e.val, s1,
                      Append(u1, Unit("call", Slice(expr, m.start, e.val + 1))))
      ELSE Raise("TypeError")                       \* units.append("group", "open")
    ELSE IF c \in {")", "[", "]"} THEN Raise("TypeError")  \* append with two arguments
    ELSE IF c \in {"+", "-", "&", "|", "."} THEN
      lex_loop(expr, j, s1, Append(u1, Unit("op", c)))
    ELSE IF c \in {"/", "*", "%", "^"} THEN
      IF ~hasNext THEN Raise("IndexError")          \* expr[i+1]
      ELSE IF At(expr, j + 1) = c
        THEN lex_loop(expr, j + 1, s1, Append(u1, Unit("op", Doubled(c))))
        ELSE lex_loop(expr, j, s1, Append(u1, Unit("op", c)))
    ELSE IF c = "=" THEN
      IF ~hasNext THEN Raise("IndexError")
      ELSE lex_loop(expr, IF At(expr, j + 1) = c THEN j + 1 ELSE j, s1,
                    Append(u1, Unit("op", c)))
    ELSE IF c \in {"<", ">", "!"} THEN
      IF ~hasNext THEN Raise("IndexError")
      ELSE IF At(expr, j + 1) = "="
        THEN lex_loop(expr, j + 1, s1, Append(u1, Unit("op", WithEq(c))))
        ELSE lex_loop(expr, j, s1, Append(u1, Unit("op", c)))
    ELSE IF c = "a" /\ Slice(expr, j, j + 3) = <<"a", "n", "d">> THEN
      IF s1.some THEN lex_loop(expr, j + 2, Grow(s1, <<"a", "n", "d">>), u1)
      ELSE lex_loop(expr, j + 2, s1, Append(u1, Unit("op", "and")))
    ELSE IF c = "o" /\ Slice(expr, j, j + 2) = <<"o", "r">> THEN
      IF s1.some THEN lex_loop(expr, j + 1, Grow(s1, <<"o", "r">>), u1)
      ELSE lex_loop(expr, j + 1, s1, Append(u1, Unit("op", "or")))
    ELSE IF c = "n" /\ Slice(expr, j, j + 3) = <<"n", "o", "t">> THEN
      IF s1.some THEN lex_loop(expr, j + 2, Grow(s1, <<"n", "o", "t">>), u1)
      ELSE lex_loop(expr, j + 2, s1, Append(u1, Unit("op", "not")))
    ELSE IF c \in Digits THEN
      IF s1.some THEN lex_loop(expr, j, Grow(s1, <<c>>), u1)
      ELSE
        \* "i = m.end(); continue": the loop's "i += 1" then steps over the
        \* character at m.end()
        LET Number(m, it, f) ==
              IF it.exc = "" THEN lex_loop(expr, m.end, s1, Append(u1, Unit("int", it.val)))
              ELSE lex_loop(expr, f.end, s1, Append(u1, Unit("float", f.value)))
            Integer(m, f) == Number(m, IntOfMatch(m), f)
        IN Integer(INT_CONSTANT_match(expr, j), FLOAT_CONSTANT_match(expr, j))
    ELSE IF c = Backquote THEN
      LET r == string_literal(expr, j, c) IN
      IF r.exc # "" THEN r
      ELSE lex_loop(expr, r.val[1], s1, Append(u1, Unit("string", r.val[2])))
    ELSE lex_loop(expr, j, Grow(s1, <<c>>), u1)

\* lex_expr(expr): the list of units, or the exception raised
lex_expr(expr) == lex_loop(expr, -1, NoWord, <<>>)

(***************************************************************************)
(* The expression parser: parse_next_val, parse_next_op, escape_upwards,   *)
(* rotate_operators, parse_units, parse_expr                               *)
(*                                                                         *)
(* While parsing, the nodes of the tree are Python dictionaries linked by  *)
(* "parent" references and edited in place. They are kept in a store (a    *)
(* sequence of node records); a reference is a position in it and 0 is     *)
(* None. A finished tree is a value node [state, op, value] or an operator *)
(* node [state, grouped, op, arity, args]; the tree that parse_units       *)
(* returns has the field parent as well, which is None. The nodes below    *)
(* the top of a finished tree are kept without the parent references that  *)
(* link them to the node above.                                            *)
(***************************************************************************)
\* ops.OPERATOR_PRECEDENCE
OPERATOR_PRECEDENCE ==
  [o \in {"[", ".", "%", "+", "-", "*", "**", "~", "~~", "|", "&", "^", "^^",
          "/", "//", "=", "<", ">", "<=", ">=", "!=", "!", "and", "or", "not"} |->
    CASE o = "[" -> 10000
      [] o \in {".", "+", "-"} -> 50
      [] o = "%" -> 20
      [] o = "*" -> 100
      [] o \in {"**", "~", "~~", "|", "&", "^", "^^", "/", "//"} -> 200
      [] o \in {"=", "<", ">", "<=", ">=", "!="} -> 10
      [] o = "!" -> 1000
      [] o \in {"and", "or", "not"} -> 5]

UnaryOps == {"+", "-", "not"}

\* ops.Operator(symbol): ops.py defines no Operator, so evaluating the
\* attribute raises AttributeError.
Operator(symbol) == Raise("AttributeError")

\* the dictionary parse_units starts from, and the ones it creates for
\* operators; arity 0 and op "None" stand for None
CtxNode(parent, state, op, arity, args) ==
  [parent |-> parent, state |-> state, grouped |-> FALSE, op |-> op,
   arity |-> arity, args |-> args, value |-> NoneV]

\* {"parent": result, "state": "complete", "op": op, "value": val}
LeafNode(parent, op, val) ==
  [parent |-> parent, state |-> "complete", grouped |-> FALSE, op |-> op,
   arity |-> 0, args |-> <<>>, value |-> val]

\* a tree that parse_units returned, appended as it is to the arguments of
\* an index operator
SubtreeNode(parent, tree) ==
  [parent |-> parent, state |-> tree.state, grouped |-> FALSE, op |-> "subtree",
   arity |-> 0, args |-> <<>>, value |-> TreeV(tree)]

\* node["op"] and node.get("grouped", False) of a node of the store
NodeOp(n) == IF n.op = "subtree" THEN PV(n.value).op ELSE n.op

NodeGrouped(n) ==
  IF n.op = "subtree"
  THEN IF PV(n.value).op \in {"value", "opval"} THEN FALSE ELSE PV(n.value).grouped
  ELSE n.grouped

\* scrub_parents(result): the tree without the parent entries of its nodes
\* (those of the trees that are values of its nodes stay)
RECURSIVE scrub_parents(_)
scrub_parents(result) ==
  IF "args" \in DOMAIN result
  THEN [state |-> result.state, grouped |-> result.grouped, op |-> result.op,
        arity |-> result.arity,
        args |-> [k \in 1..Len(result.args) |-> scrub_parents(result.args[k])]]
  ELSE [state |-> result.state, op |-> result.op, value |-> result.value]

\* result["parent"] = None on a finished tree
WithParent(t) ==
  IF "args" \in DOMAIN t
  THEN [parent |-> NoneV, state |-> t.state, grouped |-> t.grouped, op |-> t.op,
        arity |-> t.arity, args |-> t.args]
  ELSE [parent |-> NoneV, state |-> t.state, op |-> t.op, value |-> t.value]

\* the finished tree below node id
RECURSIVE Scrubbed(_, _)
Scrubbed(store, id) ==
  LET n == store[id] IN
  IF n.op = "subtree" THEN PV(n.value)
  ELSE IF n.op \in {"value", "opval"}
  THEN [state |-> n.state, op |-> n.op, value |-> n.value]
  ELSE [state |-> n.state, grouped |-> n.grouped, op |-> n.op, arity |-> n.arity,
        args |-> [k \in 1..Len(n.args) |-> Scrubbed(store, n.args[k])]]

\* escape_upwards(result)
RECURSIVE escape_upwards(_, _)
escape_upwards(store, result) ==
  IF store[result].parent # 0 /\ store[result].state = "complete"
  THEN escape_upwards(store, store[result].parent)
  ELSE IF store[result].state = "complete"
  THEN LET new == Len(store) + 1
       IN [store |-> Append([store EXCEPT ![result].parent = new],
                            CtxNode(0, "need_op", "None", 0, <<result>>)),
           result |-> new]
  ELSE [store |-> store, result |-> result]

\* rotate_operators(result, new_op); result 0 is the returned None
rotate_operators(store, result, new_op) ==
  LET args == store[result].args IN
  IF Len(args) = 0 THEN [exc |-> "", store |-> store, result |-> 0]
  ELSE
    LET target == args[Len(args)]
        top == NodeOp(store[target])
    IN
    IF ~NodeGrouped(store[target]) /\ top \notin {"value", "opval"} THEN
      IF top \notin DOMAIN OPERATOR_PRECEDENCE \/ new_op \notin DOMAIN OPERATOR_PRECEDENCE
      THEN Raise("KeyError")
      ELSE IF OPERATOR_PRECEDENCE[new_op] > OPERATOR_PRECEDENCE[top] THEN
        LET targs == store[target].args
            nr == Len(store) + 1
        IN [exc |-> "",
            store |-> Append(
              [store EXCEPT ![target].args = [targs EXCEPT ![Len(targs)] = nr]],
              CtxNode(target, "need_val", new_op, 2, <<targs[Len(targs)]>>)),
            result |-> nr]
      ELSE [exc |-> "", store |-> store, result |-> 0]
    ELSE [exc |-> "", store |-> store, result |-> 0]

\* parse_next_op(units): (operator, leftovers)
parse_next_op(units) ==
  LET ut == units[1].ut
      uv == UV(units[1])
  IN
  IF ut = "word" THEN Raise("ParseError")
  ELSE IF ut = "group" THEN Raise("ParseError")
  ELSE IF ut = "index" THEN
    IF uv = "open"
    THEN LET o == Operator("[") IN
         IF o.exc # "" THEN o ELSE [exc |-> "", val |-> o.val, rest |-> Tail(units)]
    ELSE Raise("ParseError")
  ELSE IF ut = "call" THEN Raise("ParseError")
  ELSE IF ut = "op" THEN
    LET o == Operator(uv) IN
    IF o.exc # "" THEN o ELSE [exc |-> "", val |-> o.val, rest |-> Tail(units)]
  ELSE IF ut \in {"int", "float", "string"} THEN Raise("ParseError")
  ELSE Raise("TypeError")        \* falls off the end: None is unpacked

\* the loop of parse_next_val that collects the units of a group: i is the
\* index examined, the result is <<level, i, subunits>> when the loop ends
RECURSIVE group_scan(_, _, _, _)
group_scan(units, i, level, subunits) ==
  IF i >= Len(units) THEN [exc |-> "", level |-> level, i |-> i - 1, sub |-> subunits]
  ELSE
    LET u == At(units, i) IN
    IF u.ut = "group" THEN
      IF UV(u) = "open" THEN group_scan(units, i + 1, level + 1, Append(subunits, u))
      ELSE IF UV(u) = "close" THEN
        IF level - 1 < 0 THEN [exc |-> "", level |-> level - 1, i |-> i, sub |-> subunits]
        ELSE group_scan(units, i + 1, level - 1, Append(subunits, u))
      ELSE Raise("RuntimeError")
    ELSE group_scan(units, i + 1, level, Append(subunits, u))

\* the loop of parse_units that looks for the end of an index: <<level, i>>
RECURSIVE index_scan(_, _, _)
index_scan(rest, i, level) ==
  IF i >= Len(rest) THEN [level |-> level, i |-> i - 1]
  ELSE IF At(rest, i) = Unit("index", "open") THEN index_scan(rest, i + 1, level + 1)
  ELSE IF At(rest, i) = Unit("index", "close") THEN
    IF level - 1 < 0 THEN [level |-> level - 1, i |-> i]
    ELSE index_scan(rest, i + 1, level - 1)
  ELSE index_scan(rest, i + 1, level)

RECURSIVE parse_units(_, _)
RECURSIVE parse_next_val(_)
RECURSIVE parse_loop(_, _, _)

\* parse_next_val(units): (value, leftovers)
parse_next_val(units) ==
  LET ut == units[1].ut
      uv == UV(units[1])
  IN
  IF ut = "word" THEN
    IF uv = <<"T", "r", "u", "e">> THEN [exc |-> "", val |-> BoolV(TRUE), rest |-> Tail(units)]
    ELSE IF uv = <<"F", "a", "l", "s", "e">>
      THEN [exc |-> "", val |-> BoolV(FALSE), rest |-> Tail(units)]
    ELSE IF uv = <<"N", "o", "n", "e">> THEN [exc |-> "", val |-> NoneV, rest |-> Tail(units)]
    ELSE [exc |-> "", val |-> VariableLookup(uv), rest |-> Tail(units)]
  ELSE IF ut = "group" THEN
    LET Group(g) ==
          IF g.exc # "" THEN g
          ELSE IF g.level >= 0 THEN Raise("ParseError")
          ELSE LET Sub(sub) ==
                     IF sub.exc # "" THEN sub
                     ELSE [exc |-> "", val |-> TreeV(sub.val),
                           rest |-> SliceFrom(units, g.i + 1)]
               IN Sub(parse_units(g.sub, FALSE))
    IN Group(group_scan(units, 1, 0, <<>>))
  ELSE IF ut = "index" THEN Raise("ParseError")
  ELSE IF ut = "call" THEN
    IF ~MacroStartAt(uv, 0) THEN Raise("ParseError")
    ELSE
      LET ms == MACRO_START_search(uv, 0)
          macro_args == split_macro_args(SliceFrom(uv, ms.end))
      IN IF macro_args.exc # "" THEN macro_args
         ELSE [exc |-> "", val |-> FunctionCall(ms.name, macro_args.val),
               rest |-> Tail(units)]
  ELSE IF ut = "op" THEN Raise("ParseError")
  ELSE IF ut \in {"int", "float", "string"} THEN
    [exc |-> "",
     val |-> IF ut = "int" THEN IntV(uv)
             ELSE IF ut = "float" THEN [t |-> "float", f |-> uv] ELSE StrV(uv),
     rest |-> Tail(units)]
  ELSE Raise("TypeError")        \* falls off the end: None is unpacked

\* result["args"].append(node) for a new node, which gets the next reference
AppendArg(store, result, node) ==
  Append([store EXCEPT ![result].args = Append(@, Len(store) + 1)], node)

\* One pass of "while rest:" and the rest of the loop. The result is
\* [exc, store, result] once rest is empty.
parse_loop(store, result, rest) ==
  IF rest = <<>> THEN [exc |-> "", store |-> store, result |-> result]
  ELSE
    LET r == store[result] IN
    IF r.state = "complete" THEN
      LET e == escape_upwards(store, result) IN parse_loop(e.store, e.result, rest)
    ELSE IF r.state = "blank" THEN
      LET Val(v) ==
            IF v.exc = "" THEN
              parse_loop([AppendArg(store, result, LeafNode(result, "value", v.val))
                            EXCEPT ![result].state = "need_op"],
                         result, v.rest)
            ELSE IF v.exc # "ParseError" THEN v
            ELSE
              LET o == parse_next_op(rest) IN
              IF o.exc # "" THEN o
              ELSE IF o.val.op \in UnaryOps THEN
                parse_loop([store EXCEPT ![result].arity = 1, ![result].op = o.val.op,
                                         ![result].state = "need_val"],
                           result, o.rest)
              ELSE v
      IN Val(parse_next_val(rest))
    ELSE IF r.state = "need_val" THEN
      LET Val(v) ==
            IF v.exc = "" THEN
              LET st1 == AppendArg(store, result, LeafNode(result, "value", v.val)) IN
              parse_loop(IF Len(st1[result].args) = r.arity
                         THEN [st1 EXCEPT ![result].state = "complete"] ELSE st1,
                         result, v.rest)
            ELSE IF v.exc # "ParseError" THEN v
            ELSE
              LET o == parse_next_op(rest) IN
              IF o.exc # "" THEN o
              ELSE IF o.val.op \in UnaryOps THEN
                parse_loop(AppendArg(store, result,
                                     CtxNode(result, "need_val", o.val.op, 1, <<>>)),
                           Len(store) + 1, o.rest)
              ELSE IF r.op = "." /\ r.arity = 3 /\ Len(r.args) = 2 THEN
                parse_loop([store EXCEPT ![result].arity = 2], result, rest)
              ELSE v
      IN Val(parse_next_val(rest))
    ELSE IF r.state = "need_op" THEN
      LET o == parse_next_op(rest) IN
      IF o.exc # "" THEN o
      ELSE IF o.val.op = "not" THEN Raise("ParseError")
      ELSE
        LET Rotated(rr) ==
              IF rr.exc # "" THEN rr
              ELSE
                LET res == IF rr.result # 0 THEN rr.result ELSE result
                    st0 == rr.store
                IN
                IF o.val.op = "[" THEN
                  LET sc == index_scan(o.rest, 1, 0) IN
                  IF sc.level >= 0 THEN Raise("ParseError")
                  ELSE
                    LET Sub(sub) ==
                          IF sub.exc # "" THEN sub
                          ELSE parse_loop(
                                 AppendArg([st0 EXCEPT ![res].arity = 2, ![res].op = "[",
                                                       ![res].state = "complete"],
                                           res, SubtreeNode(res, sub.val)),
                                 res, SliceFrom(o.rest, sc.i + 1))
                    IN Sub(parse_units(Slice(o.rest, 1, sc.i), FALSE))
                ELSE
                  LET Arity(st1) ==
                        IF o.val.op \in {"%", "%%", "."} THEN [st1 EXCEPT ![res].arity = 3]
                        ELSE IF o.val.op = "|"
                          THEN [st1 EXCEPT ![res].arity = 3, ![res].state = "need_opval"]
                        ELSE IF o.val.op = "!" THEN [st1 EXCEPT ![res].state = "need_call"]
                        ELSE st1
                  IN parse_loop(Arity(IF rr.result # 0 THEN st0
                                      ELSE [st0 EXCEPT ![res].arity = 2, ![res].op = o.val.op,
                                                       ![res].state = "need_val"]),
                                res, o.rest)
        IN Rotated(rotate_operators(store, result, o.val.op))
    ELSE IF r.state = "need_opval" THEN
      LET o == parse_next_op(rest) IN
      IF o.exc # "" THEN o
      ELSE parse_loop([AppendArg(store, result,
                                 LeafNode(result, "opval", OpV(o.val.op)))
                         EXCEPT ![result].state = "need_val"],
                      result, o.rest)
    ELSE IF r.state = "need_call" THEN
      LET Val(v) ==
            IF v.exc # "" THEN v
            ELSE IF v.val.t = "FunctionCall" THEN
              LET st1 == AppendArg(store, result, LeafNode(result, "value", v.val)) IN
              parse_loop([st1 EXCEPT ![result].state =
                            IF Len(st1[result].args) = r.arity THEN "complete" ELSE "need_val"],
                         result, v.rest)
            ELSE Raise("ParseError")
      IN Val(parse_next_val(rest))
    ELSE Raise("ParseError")

\* parse_units(units, ungrouped): the parse tree, or the exception raised
parse_units(units, ungrouped) ==
  LET Escaped(e) ==
        LET top == e.store[e.result] IN
        IF top.state # "need_op" \/ top.parent # 0 \/ top.op # "None" \/ top.arity # 0
        THEN Raise("ParseError")
        ELSE
          LET Grouped(t) ==
                IF ~ungrouped /\ t.op \notin {"value", "opval"}
                THEN [t EXCEPT !.grouped = TRUE] ELSE t
          IN Ok(Grouped(WithParent(Scrubbed(e.store, top.args[1]))))
      Parsed(p) ==
        IF p.exc # "" THEN p
        ELSE
          LET r == p.store[p.result] IN
          IF r.state # "complete" /\ r.state # "need_op" THEN Raise("ParseError")
          ELSE IF r.state = "need_op" /\ (r.parent # 0 \/ r.op # "None" \/ r.arity # 0)
            THEN Raise("ParseError")
          ELSE Escaped(escape_upwards(p.store, p.result))
  IN Parsed(parse_loop(<<CtxNode(0, "blank", "None", 0, <<>>)>>, 1, units))

\* parse_expr(expr): lex_expr, parse_units, scrub_parents
parse_expr(expr) ==
  LET Parsed(tree) == IF tree.exc # "" THEN tree ELSE Ok(scrub_parents(tree.val))
      Lexed(units) == IF units.exc # "" THEN units ELSE Parsed(parse_units(units.val, FALSE))
  IN Lexed(lex_expr(expr))

(***************************************************************************)
(* The evaluator                                                           *)
(*                                                                         *)
(* A state (EvalState) is a Python dictionary that the code copies         *)
(* (copy.deepcopy), passes by reference and edits in place. The model      *)
(* keeps the dictionaries in a heap: a reference is a position in          *)
(* world.heap and a dictionary is a function from its keys (names, as      *)
(* sequences of characters) to values. A dictionary that is itself a value *)
(* (DictV) is the sequence of its <<key, value>> pairs in insertion order. *)
(* The lists and dictionaries in the heap have ids (world.next is the      *)
(* first unused one): two that have the same id are the same object.       *)
(* world.calls is the log of the calls of the module finder, world.evals   *)
(* the log of the texts and expressions handed to eval_text and eval_expr. *)
(* Every function of the evaluator returns [exc, val, st, w]: the value,   *)
(* the reference of the state it returns and the world; when it raises,    *)
(* [exc, w].                                                               *)
(***************************************************************************)
\* the order of two strings: "lt", "eq" or "gt"
RECURSIVE StrCmp(_, _, _)
StrCmp(s, t, k) ==
  IF k > Len(s) /\ k > Len(t) THEN "eq"
  ELSE IF k > Len(s) THEN "lt"
  ELSE IF k > Len(t) THEN "gt"
  ELSE IF s[k] = t[k] THEN StrCmp(s, t, k + 1)
  ELSE IF Ord(s[k]) < Ord(t[k]) THEN "lt" ELSE "gt"

\* The identities of a value: the ids of its lists and dictionaries and the
\* tags of its nans, in the order in which they are met, keys before values.
RECURSIVE TagSeq(_)
TagSeq(v) ==
  CASE v.t = "list" -> <<v.id>> \o Join(<<>>, [k \in 1..Len(v.l) |-> TagSeq(v.l[k])])
    [] v.t = "tuple" -> Join(<<>>, [k \in 1..Len(v.u) |-> TagSeq(v.u[k])])
    [] v.t = "dict" ->
         <<v.id>> \o Join(<<>>, [k \in 1..Len(v.d) |-> TagSeq(v.d[k][1]) \o TagSeq(v.d[k][2])])
    [] v.t = "float" -> IF v.f.k = "nan" THEN <<v.f.e>> ELSE <<>>
    [] OTHER -> <<>>
Tags(v) == LET Of(ts) == {ts[k] : k \in 1..Len(ts)} \ {0} IN Of(TagSeq(v))

\* the ids of the lists and dictionaries of a value
RECURSIVE Ids(_)
Ids(v) ==
  CASE v.t = "list" -> ({v.id} \ {0}) \cup UNION {Ids(v.l[k]) : k \in 1..Len(v.l)}
    [] v.t = "tuple" -> UNION {Ids(v.u[k]) : k \in 1..Len(v.u)}
    [] v.t = "dict" -> ({v.id} \ {0}) \cup UNION {Ids(v.d[k][2]) : k \in 1..Len(v.d)}
    [] OTHER -> {}

\* the number of lists and dictionaries of a value that have no id yet
RECURSIVE Fresh(_)
Fresh(v) ==
  CASE v.t = "list" -> (IF v.id = 0 THEN 1 ELSE 0) + Sum([k \in 1..Len(v.l) |-> Fresh(v.l[k])])
    [] v.t = "tuple" -> Sum([k \in 1..Len(v.u) |-> Fresh(v.u[k])])
    [] v.t = "dict" -> (IF v.id = 0 THEN 1 ELSE 0) + Sum([k \in 1..Len(v.d) |-> Fresh(v.d[k][2])])
    [] OTHER -> 0

\* a value whose new lists and dictionaries got the ids n, n + 1, ...
RECURSIVE Adopt(_, _)
AdoptFrom(vs, fresh, n) ==
  SubSeq([k \in 1..Len(vs) |-> Adopt(vs[k], n + Sum([j \in 1..(k - 1) |-> fresh[j]]))], 1, Len(vs))
AdoptEach(vs, n) == AdoptFrom(vs, SubSeq([k \in 1..Len(vs) |-> Fresh(vs[k])], 1, Len(vs)), n)
Adopt(v, n) ==
  CASE v.t = "list" ->
         [t |-> "list", l |-> AdoptEach(v.l, IF v.id = 0 THEN n + 1 ELSE n),
          id |-> IF v.id = 0 THEN n ELSE v.id]
    [] v.t = "tuple" -> TupleV(AdoptEach(v.u, n))
    [] v.t = "dict" ->
         LET vs == AdoptEach(SubSeq([k \in 1..Len(v.d) |-> v.d[k][2]], 1, Len(v.d)),
                             IF v.id = 0 THEN n + 1 ELSE n)
         IN [t |-> "dict", d |-> SubSeq([k \in 1..Len(v.d) |-> <<v.d[k][1], vs[k]>>], 1, Len(v.d)),
             id |-> IF v.id = 0 THEN n ELSE v.id]
    [] OTHER -> v

\* a value with the identities in the domain of f renamed by f
RECURSIVE Renamed(_, _)
Renamed(v, f) ==
  CASE v.t = "list" ->
         [t |-> "list", l |-> SubSeq([k \in 1..Len(v.l) |-> Renamed(v.l[k], f)], 1, Len(v.l)),
          id |-> IF v.id \in DOMAIN f THEN f[v.id] ELSE v.id]
    [] v.t = "tuple" -> TupleV(SubSeq([k \in 1..Len(v.u) |-> Renamed(v.u[k], f)], 1, Len(v.u)))
    [] v.t = "dict" ->
         [t |-> "dict",
          d |-> SubSeq([k \in 1..Len(v.d) |-> <<Renamed(v.d[k][1], f), Renamed(v.d[k][2], f)>>],
                       1, Len(v.d)),
          id |-> IF v.id \in DOMAIN f THEN f[v.id] ELSE v.id]
    [] v.t = "float" ->
         IF v.f.k = "nan" /\ v.f.e \in DOMAIN f THEN [v EXCEPT !.f.e = f[v.f.e]] ELSE v
    [] OTHER -> v

\* a value in which the object id has the contents of new
RECURSIVE Rewritten(_, _, _)
Rewritten(v, id, new) ==
  CASE v.t = "list" ->
         IF v.id = id THEN new
         ELSE [v EXCEPT !.l = SubSeq([k \in 1..Len(v.l) |-> Rewritten(v.l[k], id, new)], 1, Len(v.l))]
    [] v.t = "tuple" ->
         TupleV(SubSeq([k \in 1..Len(v.u) |-> Rewritten(v.u[k], id, new)], 1, Len(v.u)))
    [] v.t = "dict" ->
         IF v.id = id THEN new
         ELSE [v EXCEPT !.d = SubSeq([k \in 1..Len(v.d) |->
                                        <<v.d[k][1], Rewritten(v.d[k][2], id, new)>>], 1, Len(v.d))]
    [] OTHER -> v

\* the objects with the id in a value
RECURSIVE Held(_, _)
Held(v, id) ==
  CASE v.t = "list" ->
         IF v.id = id THEN {v} ELSE UNION {Held(v.l[k], id) : k \in 1..Len(v.l)}
    [] v.t = "tuple" -> UNION {Held(v.u[k], id) : k \in 1..Len(v.u)}
    [] v.t = "dict" ->
         IF v.id = id THEN {v} ELSE UNION {Held(v.d[k][2], id) : k \in 1..Len(v.d)}
    [] OTHER -> {}

\* a value without identities: what it holds, whatever it shares
RECURSIVE Plain(_)
Plain(v) ==
  CASE v.t = "list" -> ListV(SubSeq([k \in 1..Len(v.l) |-> Plain(v.l[k])], 1, Len(v.l)))
    [] v.t = "tuple" -> TupleV(SubSeq([k \in 1..Len(v.u) |-> Plain(v.u[k])], 1, Len(v.u)))
    [] v.t = "dict" ->
         DictV(SubSeq([k \in 1..Len(v.d) |-> <<Plain(v.d[k][1]), Plain(v.d[k][2])>>], 1, Len(v.d)))
    [] v.t = "float" -> IF v.f.k = "nan" THEN [v EXCEPT !.f.e = 0] ELSE v
    [] OTHER -> v
PlainState(d) == [k \in DOMAIN d |-> Plain(d[k])]

\* the keys of a dictionary of names, sorted
SortedKeys(d) ==
  LET Ranked(ranks) ==
        SubSeq([i \in 1..Cardinality(ranks) |-> (CHOOSE p \in ranks : p[1] = i - 1)[2]],
               1, Cardinality(ranks))
  IN Ranked({<<Cardinality({j \in DOMAIN d : StrCmp(j, k, 1) = "lt"}), k>> : k \in DOMAIN d})
ValuesAt(d, ks) == SubSeq([i \in 1..Len(ks) |-> d[ks[i]]], 1, Len(ks))
StateOf(ks, vs) == [k \in {ks[i] : i \in 1..Len(ks)} |-> vs[CHOOSE i \in 1..Len(ks) : ks[i] = k]]
StateTags(d) == UNION {Tags(d[k]) : k \in DOMAIN d}
StateIds(d) == UNION {Ids(d[k]) : k \in DOMAIN d}
MaxOf(S) == IF S = {} THEN 0 ELSE CHOOSE m \in S : \A x \in S : x <= m

\* a state whose new lists and dictionaries got the ids n, n + 1, ...
AdoptAt(d, ks, n) == StateOf(ks, AdoptEach(ValuesAt(d, ks), n))
AdoptState(d, n) == AdoptAt(d, SortedKeys(d), n)

\* A state with its identities numbered from 1 in the order in which its
\* sorted keys meet them: two states that hold the same values and share the
\* same objects are one state.
FirstAt(ts, i) == CHOOSE k \in 1..Len(ts) : ts[k] = i /\ \A j \in 1..(k - 1) : ts[j] # i
NumberedBy(ts, firsts) ==
  [i \in DOMAIN firsts |-> 1 + Cardinality({j \in DOMAIN firsts : firsts[j] < firsts[i]})]
CanonicalBy(d, ts) ==
  LET tags == {ts[k] : k \in 1..Len(ts)} \ {0}
      f == NumberedBy(ts, [i \in tags |-> FirstAt(ts, i)])
  IN [k \in DOMAIN d |-> Renamed(d[k], f)]
CanonicalAt(d, vs) == CanonicalBy(d, Join(<<>>, SubSeq([i \in 1..Len(vs) |-> TagSeq(vs[i])], 1, Len(vs))))
Canonical(d) == CanonicalAt(d, ValuesAt(d, SortedKeys(d)))
CanonicalState(d) == Canonical(AdoptState(d, 1 + MaxOf(StateTags(d))))

\* a world whose heap holds the dictionary d; next is the first unused id
NewWorld(d) ==
  [heap |-> <<AdoptState(d, 1 + MaxOf(StateTags(d)))>>, calls |-> <<>>, evals |-> <<>>,
   next |-> 1 + MaxOf(StateTags(d)) + Sum([k \in DOMAIN d |-> Fresh(d[k])])]

Ret(val, st, w) == [exc |-> "", val |-> val, st |-> st, w |-> w]
Exc(e, w) == [exc |-> e, w |-> w]

\* d[k] = v and del d[k] on a dictionary
DictSet(d, k, v) == [x \in DOMAIN d \cup {k} |-> IF x = k THEN v ELSE d[x]]
DictDel(d, k) == [x \in DOMAIN d \ {k} |-> d[x]]
\* d.update(e)
DictUpdate(d, e) == [x \in DOMAIN d \cup DOMAIN e |-> IF x \in DOMAIN e THEN e[x] ELSE d[x]]

\* state[k] = v on the dictionary behind a reference: the lists and
\* dictionaries of v are from now on objects of the heap
SetItem(w, st, k, v) ==
  LET n == Max2(w.next, 1 + MaxOf(Tags(v)))
  IN [w EXCEPT !.heap[st] = DictSet(@, k, Adopt(v, n)), !.next = n + Fresh(v)]

\* The object id gets the contents of new, under every name that refers to
\* it. No list holds itself.
Mutate(w, id, new) ==
  [w EXCEPT !.heap = SubSeq([i \in 1..Len(w.heap) |->
                               [k \in DOMAIN w.heap[i] |-> Rewritten(w.heap[i][k], id, new)]],
                            1, Len(w.heap))]

\* a value as the heap has it now: an object that was edited through
\* another name has the contents it was given
RECURSIVE Current(_, _)
Current(w, v) ==
  LET InHeap(id) ==
        UNION {UNION {Held(w.heap[i][k], id) : k \in DOMAIN w.heap[i]} : i \in 1..Len(w.heap)}
      Kept(x) == CHOOSE o \in InHeap(x.id) : TRUE
  IN CASE v.t = "list" ->
            IF v.id # 0 /\ InHeap(v.id) # {} THEN Kept(v)
            ELSE [v EXCEPT !.l = SubSeq([k \in 1..Len(v.l) |-> Current(w, v.l[k])], 1, Len(v.l))]
       [] v.t = "tuple" ->
            TupleV(SubSeq([k \in 1..Len(v.u) |-> Current(w, v.u[k])], 1, Len(v.u)))
       [] v.t = "dict" ->
            IF v.id # 0 /\ InHeap(v.id) # {} THEN Kept(v)
            ELSE [v EXCEPT !.d = SubSeq([k \in 1..Len(v.d) |->
                                           <<v.d[k][1], Current(w, v.d[k][2])>>], 1, Len(v.d))]
       [] OTHER -> v

\* a faulty copy: the same dictionary under the same reference
DeepCopy_alias(w, st) == [w |-> w, st |-> st]

\* copy.deepcopy(v): new objects with equal contents, where what was one
\* object is one object again; the new ids are n, n + 1, ...
DeepCopied(d, n) ==
  LET ids == StateIds(d)
      f == [i \in ids |-> n + Cardinality({j \in ids : j < i})]
  IN [k \in DOMAIN d |-> Renamed(d[k], f)]

\* a world with one more dictionary in its heap: new objects with the
\* contents of d
Allocate(w, d) ==
  LET n == Max2(w.next, 1 + MaxOf(StateTags(d)))
      m == n + Cardinality(StateIds(d))
  IN [w EXCEPT !.heap = Append(@, AdoptState(DeepCopied(d, n), m)),
               !.next = m + Sum([k \in DOMAIN d |-> Fresh(d[k])])]

\* copy.deepcopy(state)
DeepCopy(w, st) ==
  [w |-> [w EXCEPT !.heap = Append(@, DeepCopied(w.heap[st], w.next)),
                   !.next = @ + Cardinality(StateIds(w.heap[st]))],
   st |-> Len(w.heap) + 1]

\* A parse tree is a Python dictionary. TreeItems(tree) is the sequence of
\* its <<key, value>> pairs in the order in which parse_units inserts the
\* keys: parent (None, where the tree has the key), state, grouped, op,
\* arity, args, value.
TreeText(s) ==
  CASE s = "parent" -> <<"p", "a", "r", "e", "n", "t">> [] s = "state" -> <<"s", "t", "a", "t", "e">>
    [] s = "grouped" -> <<"g", "r", "o", "u", "p", "e", "d">> [] s = "op" -> <<"o", "p">>
    [] s = "arity" -> <<"a", "r", "i", "t", "y">> [] s = "args" -> <<"a", "r", "g", "s">>
    [] s = "blank" -> <<"b", "l", "a", "n", "k">>
    [] s = "need_val" -> <<"n", "e", "e", "d", "_", "v", "a", "l">>
    [] s = "need_op" -> <<"n", "e", "e", "d", "_", "o", "p">>
    [] s = "need_opval" -> <<"n", "e", "e", "d", "_", "o", "p", "v", "a", "l">>
    [] s = "need_call" -> <<"n", "e", "e", "d", "_", "c", "a", "l", "l">>
    [] s = "complete" -> <<"c", "o", "m", "p", "l", "e", "t", "e">>
    [] s = "not" -> <<"n", "o", "t">> [] s = "+" -> <<"+">> [] s = "-" -> <<"-">>
    [] s = "~" -> <<"~">> [] s = "*" -> <<"*">> [] s = "/" -> <<"/">>
    [] s = "//" -> <<"/", "/">> [] s = "**" -> <<"*", "*">> [] s = "%" -> <<"%">>
    [] s = "%%" -> <<"%", "%">> [] s = "=" -> <<"=">> [] s = "!=" -> <<"!", "=">>
    [] s = "<" -> <<"<">> [] s = ">" -> <<">">> [] s = "<=" -> <<"<", "=">>
    [] s = ">=" -> <<">", "=">> [] s = "&" -> <<"&">> [] s = "|" -> <<"|">>
    [] s = "^" -> <<"^">> [] s = "^^" -> <<"^", "^">> [] s = "~~" -> <<"~", "~">>
    [] s = "." -> <<".">> [] s = "!" -> <<"!">> [] s = "[" -> <<"[">>
    [] s = "and" -> <<"a", "n", "d">> [] s = "or" -> <<"o", "r">>
    [] s = "value" -> <<"v", "a", "l", "u", "e">> [] s = "opval" -> <<"o", "p", "v", "a", "l">>
TreeItem(tree, key) ==
  CASE key = "parent" -> tree.parent
    [] key = "state" -> StrV(TreeText(tree.state))
    [] key = "grouped" -> BoolV(tree.grouped)
    [] key = "op" -> IF tree.op = "None" THEN NoneV ELSE StrV(TreeText(tree.op))
    [] key = "arity" -> IF tree.arity = 0 THEN NoneV ELSE IntV(tree.arity)
    [] key = "args" -> ListV([k \in 1..Len(tree.args) |-> TreeV(tree.args[k])])
    [] key = "value" -> tree.value
TreeKeys(tree) ==
  SelectSeq(<<"parent", "state", "grouped", "op", "arity", "args", "value">>,
            LAMBDA key : key \in DOMAIN tree)
TreeItems(tree) ==
  [k \in 1..Len(TreeKeys(tree)) |->
     <<StrV(TreeText(TreeKeys(tree)[k])), TreeItem(tree, TreeKeys(tree)[k])>>]

\* the <<key, value>> pairs of a dictionary, a parse tree included
IsDict(a) == a.t \in {"dict", "tree"}
Items(a) == IF a.t = "tree" THEN TreeItems(PV(a)) ELSE PV(a)

\* the numbers: bool, int and float
IsNum(a) == a.t \in {"bool", "int", "float"}
IntOf(a) == IF a.t = "bool" THEN (IF PV(a) THEN 1 ELSE 0) ELSE PV(a)
NumOf(a) == IF a.t = "float" THEN PV(a) ELSE FloatOfInt(IntOf(a))

\* "a is b" where it decides an equality: json's NaN is one object, which a
\* list or a dictionary finds equal to itself although NaN == NaN is False;
\* a nan that an addition gave is an object of its own
PyIs(a, b) ==
  \/ a.t = "float" /\ b.t = "float" /\ PV(a).k = "nan" /\ PV(a) = PV(b)
  \/ a.t \in {"list", "dict"} /\ a.t = b.t /\ a.id # 0 /\ a.id = b.id

\* equality of two values as Python's == decides it (True == 1, 1 == 1.0,
\* [1] == [1.0]); two dictionaries are equal when they hold equal values
\* under equal keys, in whatever order
RECURSIVE PyEq(_, _)
PyEqIs(a, b) == PyIs(a, b) \/ PyEq(a, b)
PyEq(a, b) ==
  IF IsNum(a) /\ IsNum(b) THEN FloatCmp(NumOf(a), NumOf(b)) = "eq"
  ELSE IF a.t = b.t /\ a.t \in {"list", "tuple"} THEN
    /\ Len(PV(a)) = Len(PV(b))
    /\ \A k \in 1..Len(PV(a)) : PyEqIs(PV(a)[k], PV(b)[k])
  ELSE IF IsDict(a) /\ IsDict(b) THEN
    LET Same(x, y) ==
          /\ Len(x) = Len(y)
          /\ \A i \in 1..Len(x) : \E j \in 1..Len(y) :
               PyEqIs(x[i][1], y[j][1]) /\ PyEqIs(x[i][2], y[j][2])
    IN Same(Items(a), Items(b))
  ELSE a = b

\* whether hash(key) succeeds: a list and a dictionary are unhashable, and
\* so is a tuple that holds one
RECURSIVE Hashable(_)
Hashable(key) ==
  /\ key.t \notin {"list", "dict", "tree"}
  /\ key.t = "tuple" => \A k \in 1..Len(PV(key)) : Hashable(PV(key)[k])

\* str(n) for an integer
RECURSIVE NatStr(_)
NatStr(n) ==
  IF n < 10 THEN <<CHOOSE c \in Digits : DigitVal(c) = n>>
  ELSE Append(NatStr(n \div 10), CHOOSE c \in Digits : DigitVal(c) = n % 10)
IntStr(n) == IF n < 0 THEN <<"-">> \o NatStr(-n) ELSE NatStr(n)

\* the pieces of a text put together
RECURSIVE Concat(_)
Concat(bits) == IF bits = <<>> THEN <<>> ELSE Head(bits) \o Concat(Tail(bits))

\* repr(s) of a string: in single quotes, or in double quotes when it holds
\* a single quote and no double quote; the backslash, the quote and the
\* characters that are not printable are escaped
CharRepr(c, quote) ==
  CASE c = "\\" -> <<"\\", "\\">>
    [] c = quote -> <<"\\", quote>>
    [] c = "\n" -> <<"\\", "n">>
    [] c = "\t" -> <<"\\", "t">>
    [] c = "\r" -> <<"\\", "r">>
    [] OTHER ->
         IF (\E k \in 1..95 : Ascii[k] = c) \/ IsPrintable(Ord(c)) THEN <<c>>
         ELSE IF Ord(c) < 16^2
           THEN <<"\\", "x", HexDigit(Ord(c) \div 16), HexDigit(Ord(c) % 16)>>
         ELSE IF Ord(c) < 16^4
           THEN <<"\\", "u", HexDigit(Ord(c) \div 16^3), HexDigit((Ord(c) \div 16^2) % 16),
                  HexDigit((Ord(c) \div 16) % 16), HexDigit(Ord(c) % 16)>>
         ELSE <<"\\", "U", "0", "0", HexDigit(Ord(c) \div 16^5), HexDigit((Ord(c) \div 16^4) % 16),
                HexDigit((Ord(c) \div 16^3) % 16), HexDigit((Ord(c) \div 16^2) % 16),
                HexDigit((Ord(c) \div 16) % 16), HexDigit(Ord(c) % 16)>>
StrRepr(s) ==
  LET quote == IF (\E k \in 1..Len(s) : s[k] = "'") /\ (\A k \in 1..Len(s) : s[k] # "\"")
               THEN "\"" ELSE "'"
  IN <<quote>> \o Concat([k \in 1..Len(s) |-> CharRepr(s[k], quote)]) \o <<quote>>

\* repr(value). The text of a function and of a VariableLookup or
\* FunctionCall object names the address of the object: it is kept as one
\* element that holds the value.
RECURSIVE PyRepr(_)
ItemRepr(item) == PyRepr(item[1]) \o <<":", " ">> \o PyRepr(item[2])
PyRepr(value) ==
  CASE value.t = "str" -> StrRepr(PV(value))
    [] value.t = "none" -> <<"N", "o", "n", "e">>
    [] value.t = "bool" -> IF PV(value) THEN <<"T", "r", "u", "e">> ELSE <<"F", "a", "l", "s", "e">>
    [] value.t = "int" -> IntStr(PV(value))
    [] value.t = "float" -> FloatRepr(PV(value))
    [] value.t = "list" ->
         <<"[">> \o Join(<<",", " ">>, [k \in 1..Len(PV(value)) |-> PyRepr(PV(value)[k])]) \o <<"]">>
    [] value.t = "tuple" ->
         <<"(">> \o Join(<<",", " ">>, [k \in 1..Len(PV(value)) |-> PyRepr(PV(value)[k])])
           \o (IF Len(PV(value)) = 1 THEN <<",">> ELSE <<>>) \o <<")">>
    [] IsDict(value) ->
         <<"{">> \o Join(<<",", " ">>, [k \in 1..Len(Items(value)) |-> ItemRepr(Items(value)[k])])
           \o <<"}">>
    [] OTHER -> <<value>>

\* to_string(value): str(value)
to_string(value) == IF value.t = "str" THEN PV(value) ELSE PyRepr(value)

\* error(message, state): the expansion text and the state, which gets the
\* message appended to its _errors_ list
ERRORS == <<"_", "e", "r", "r", "o", "r", "s", "_">>
error(message, w, st) ==
  LET msg == <<"E", "r", "r", "o", "r", ":", " ">> \o message
      exp == <<"<", "<">> \o msg \o <<">", ">">>
      Appended(w1, errs) ==
        IF errs.t # "list" THEN Exc("AttributeError", w1)
        ELSE Ret(StrV(exp), st, Mutate(w1, errs.id, [errs EXCEPT !.l = Append(@, StrV(msg))]))
      With(w1) == Appended(w1, w1.heap[st][ERRORS])
  IN With(IF ERRORS \notin DOMAIN w.heap[st] THEN SetItem(w, st, ERRORS, ListV(<<>>)) ELSE w)

\* a[0], as op_result takes it of each argument
Subscript0(a) ==
  CASE a.t \in {"str", "list", "tuple"} ->
         IF PV(a) = <<>> THEN Raise("IndexError")
         ELSE Ok(IF a.t = "str" THEN StrV(<<PV(a)[1]>>) ELSE PV(a)[1])
    [] IsDict(a) ->
         LET Found(items, ks) ==
               IF ks = {} THEN Raise("KeyError") ELSE Ok(items[CHOOSE k \in ks : TRUE][2])
             Keyed(items) == Found(items, {k \in 1..Len(items) : PyEq(items[k][1], IntV(0))})
         IN Keyed(Items(a))
    [] OTHER -> Raise("TypeError")

\* the operators that ops.py registers with @op
ALL_OPS ==
  {"not", "+", "-", "~", "*", "/", "//", "**", "%", "=", "!=", "<", ">", "<=", ">=",
   "&", "|", "^", "^^", "~~", "."}

\* The candidates that ops.py registers with @op, in the order of their
\* definition: the operator, the patterns of the operand types ('*', a type
\* or a tuple of types) and the function.
Num == TupleV(<<StrV(<<"i", "n", "t">>), StrV(<<"f", "l", "o", "a", "t">>)>>)
Candidate(op, pats, f) == [op |-> op, pats |-> pats, f |-> f]
Registry ==
  <<Candidate("not", <<StrV(<<"*">>)>>, "u_not"),
    Candidate("+", <<StrV(<<"*">>)>>, "u_plus"),
    Candidate("-", <<Num>>, "u_minus"),
    Candidate("~", <<StrV(<<"i", "n", "t">>)>>, "u_flip"),
    Candidate("+", <<Num, Num>>, "plus_nn"),
    Candidate("-", <<Num, Num>>, "minus_nn"),
    Candidate("*", <<Num, Num>>, "times_nn"),
    Candidate("/", <<Num, Num>>, "div_nn"),
    Candidate("//", <<Num, Num>>, "div_nn"),
    Candidate("**", <<Num, Num>>, "pow_nn"),
    Candidate("%", <<Num, Num>>, "mod_nn"),
    Candidate("=", <<StrV(<<"*">>), StrV(<<"*">>)>>, "eq"),
    Candidate("!=", <<StrV(<<"*">>), StrV(<<"*">>)>>, "neq"),
    Candidate("<", <<StrV(<<"*">>), StrV(<<"*">>)>>, "less"),
    Candidate(">", <<StrV(<<"*">>), StrV(<<"*">>)>>, "greater"),
    Candidate("<=", <<StrV(<<"*">>), StrV(<<"*">>)>>, "leq"),
    Candidate(">=", <<StrV(<<"*">>), StrV(<<"*">>)>>, "geq"),
    Candidate("&", <<StrV(<<"i", "n", "t">>), StrV(<<"i", "n", "t">>)>>, "bit_and"),
    Candidate("|", <<StrV(<<"i", "n", "t">>), StrV(<<"i", "n", "t">>)>>, "bit_and"),
    Candidate("^", <<StrV(<<"i", "n", "t">>), StrV(<<"i", "n", "t">>)>>, "bit_and"),
    Candidate("+", <<StrV(<<"s", "t", "r", "i", "n", "g">>), StrV(<<"s", "t", "r", "i", "n", "g">>)>>, "plus_str"),
    Candidate("-", <<StrV(<<"s", "t", "r", "i", "n", "g">>), StrV(<<"s", "t", "r", "i", "n", "g">>)>>, "minus_str"),
    Candidate("*", <<StrV(<<"s", "t", "r", "i", "n", "g">>), StrV(<<"i", "n", "t">>)>>, "times_str"),
    Candidate("/", <<StrV(<<"s", "t", "r", "i", "n", "g">>), StrV(<<"s", "t", "r", "i", "n", "g">>)>>, "search_str"),
    Candidate("//", <<StrV(<<"s", "t", "r", "i", "n", "g">>), StrV(<<"s", "t", "r", "i", "n", "g">>)>>, "search_simple_str"),
    Candidate("~", <<StrV(<<"s", "t", "r", "i", "n", "g">>), StrV(<<"s", "t", "r", "i", "n", "g">>), StrV(<<"s", "t", "r", "i", "n", "g">>)>>, "replace_str"),
    Candidate("~~", <<StrV(<<"s", "t", "r", "i", "n", "g">>), StrV(<<"s", "t", "r", "i", "n", "g">>), StrV(<<"s", "t", "r", "i", "n", "g">>)>>, "replace_simple_str"),
    Candidate("^", <<StrV(<<"s", "t", "r", "i", "n", "g">>), StrV(<<"s", "t", "r", "i", "n", "g">>)>>, "split_str"),
    Candidate("^^", <<StrV(<<"s", "t", "r", "i", "n", "g">>), StrV(<<"s", "t", "r", "i", "n", "g">>)>>, "split_str"),
    Candidate("+", <<StrV(<<"l", "i", "s", "t">>), StrV(<<"l", "i", "s", "t">>)>>, "cat_lst"),
    Candidate(".", <<StrV(<<"l", "i", "s", "t">>), StrV(<<"*">>)>>, "app_lst"),
    Candidate("*", <<StrV(<<"l", "i", "s", "t">>), StrV(<<"i", "n", "t">>)>>, "times_lst"),
    Candidate("/", <<StrV(<<"l", "i", "s", "t">>), StrV(<<"*">>)>>, "search_lst"),
    Candidate("~", <<StrV(<<"l", "i", "s", "t">>), StrV(<<"*">>), StrV(<<"*">>)>>, "replace_lst"),
    Candidate("|", <<StrV(<<"l", "i", "s", "t">>), StrV(<<"o", "p">>), StrV(<<"*">>)>>, "reduce_lst"),
    Candidate("+", <<StrV(<<"d", "i", "c", "t">>), StrV(<<"d", "i", "c", "t">>)>>, "union_dict"),
    Candidate("|", <<StrV(<<"d", "i", "c", "t">>), StrV(<<"d", "i", "c", "t">>)>>, "rev_union_dict"),
    Candidate("&", <<StrV(<<"d", "i", "c", "t">>), StrV(<<"d", "i", "c", "t">>)>>, "intersect_dict"),
    Candidate("-", <<StrV(<<"d", "i", "c", "t">>), StrV(<<"d", "i", "c", "t">>)>>, "sub_dict"),
    Candidate(".", <<StrV(<<"d", "i", "c", "t">>), StrV(<<"*">>), StrV(<<"*">>)>>, "ins_dict"),
    Candidate("+", <<StrV(<<"s", "t", "r", "i", "n", "g">>), StrV(<<"*">>)>>, "plus_str_default"),
    Candidate("+", <<StrV(<<"*">>), StrV(<<"s", "t", "r", "i", "n", "g">>)>>, "plus_default_str")>>

\* ALL_OPS[op]: the candidates of an operator
Candidates(op) == SelectSeq(Registry, LAMBDA c : c.op = op)

\* resolve_op(op, *types): the first candidate is compared with len(args),
\* a name that the function does not define
resolve_op(op, types) ==
  IF op \notin ALL_OPS THEN Raise("ValueError")
  ELSE IF Candidates(op) = <<>> THEN Raise("ValueError")
  ELSE Raise("NameError")

\* op_result(op, state, *args)
op_result(op, w, st, args) ==
  LET Resolved(f) == Exc(f.exc, w)
      Typed(types) ==
        IF \E k \in 1..Len(args) : types[k].exc # ""
        THEN Exc(types[CHOOSE k \in 1..Len(args) :
                         types[k].exc # "" /\ \A j \in 1..(k - 1) : types[j].exc = ""].exc, w)
        ELSE Resolved(resolve_op(op, <<[k \in 1..Len(args) |-> types[k].val]>>))
  IN Typed(SubSeq([k \in 1..Len(args) |-> Subscript0(args[k])], 1, Len(args)))

\* ops.is_true(typ, val), and a call of it with the given arguments
is_true(typ, val) == Truthy(val)
Call_is_true(args) == IF Len(args) = 2 THEN Ok(is_true(args[1], args[2])) ELSE Raise("TypeError")

\* StoryNode(name, content, successors): the content and the successors
\* dictionary in its order, each entry <<option, destination>> or
\* <<option, [destination, transition]>> as parse_first_node builds it
StoryNode(content, successors) == [content |-> content, successors |-> successors]

\* Story.__init__(title, author, start, nodes, modules, setup): nodes maps a
\* node's name to the node, modules is the list of the names of the included
\* modules, setup the default initial state. A module finder is
\* [present, mods]: not present is None, and mods maps the names of the
\* modules it finds to their stories.
Story(title, author, start, nodes, modules, setup) ==
  [title |-> title, author |-> author, start |-> start, nodes |-> nodes,
   modules |-> modules, setup |-> setup]
NoFinder == [present |-> FALSE, mods |-> <<>>]
Finder(mods) == [present |-> TRUE, mods |-> mods]

\* a module finder handed on as a Python value
FinderValue(mf) == IF mf.present THEN FuncV(mf) ELSE NoneV

\* eval_tree, eval_expr, eval_macro, eval_text and the builtins call each
\* other. Inside the evaluator each such call is made through the one
\* recursive operator Evaluate, which applies the function that is called.
RECURSIVE Evaluate(_)
call_eval_tree(tree, story, w, st, mf) ==
  Evaluate([fn |-> "eval_tree", tree |-> tree, story |-> story, w |-> w, st |-> st, mf |-> mf])
call_eval_expr(expr, story, w, st, mf) ==
  Evaluate([fn |-> "eval_expr", expr |-> expr, story |-> story, w |-> w, st |-> st, mf |-> mf])
call_eval_macro(name, args, story, w, st, mf) ==
  Evaluate([fn |-> "eval_macro", name |-> name, args |-> args, story |-> story, w |-> w,
            st |-> st, mf |-> mf])
call_eval_text(text_, story, w, st, context_, mf) ==
  Evaluate([fn |-> "eval_text", text |-> text_, story |-> story, w |-> w, st |-> st,
            context |-> context_, mf |-> mf])

\* the loop of the map operator over the pairs of a dictionary, from pair k;
\* mstate is a new dictionary that refers to the objects of the state
RECURSIVE map_dict_loop(_, _, _, _, _, _, _, _)
map_dict_loop(tree, story, w, mstate, mf, pairs, k, results) ==
  IF k > Len(pairs)
  THEN Ret(DictV([j \in 1..Len(results) |-> <<results[j][1], Current(w, results[j][2])>>]),
           mstate, w)
  ELSE
    LET Mapped(r) ==
          IF r.exc # "" THEN r
          ELSE map_dict_loop(tree, story, r.w, r.st, mf, pairs, k + 1,
                             Append(results, <<pairs[k][1], r.val>>))
        Bound(w1) == Mapped(call_eval_tree(tree.args[2], story, w1, mstate, mf))
        Keyed(w1) == Bound(SetItem(w1, mstate, <<"?">>, Current(w, pairs[k][2])))
    IN Keyed(SetItem(w, mstate, <<"#">>, pairs[k][1]))

\* "for a in tree['args']: av, state = eval_tree(a, ...)", from argument k.
\* arg_values holds the objects themselves: one that a later argument edits
\* in place has its new contents when the operator is applied.
RECURSIVE eval_args(_, _, _, _, _, _, _)
eval_args(args, k, story, w, st, mf, vals) ==
  IF k > Len(args) THEN Ret(vals, st, w)
  ELSE LET r == call_eval_tree(args[k], story, w, st, mf) IN
       IF r.exc # "" THEN r
       ELSE eval_args(args, k + 1, story, r.w, r.st, mf,
                      Append(SubSeq([j \in 1..Len(vals) |-> Current(r.w, vals[j])], 1, Len(vals)),
                             r.val))

\* eval_tree(tree, story, state, module_finder)
eval_tree(tree, story, w, st, mf) ==
  IF tree.op \in {"value", "opval"} THEN
    LET rv == tree.value IN
    IF rv.t = "FunctionCall" THEN call_eval_macro(PV(rv)[1], PV(rv)[2], story, w, st, mf)
    ELSE IF rv.t = "VariableLookup" THEN
      IF PV(rv) \in DOMAIN w.heap[st] THEN Ret(w.heap[st][PV(rv)], st, w)
      ELSE error(<<"U", "n", "k", "n", "o", "w", "n", " ", "v", "a", "r", "i", "a", "b", "l", "e", " ", "'">> \o PV(rv) \o <<"'", ".">>, w, st)
    ELSE Ret(rv, st, w)
  ELSE IF tree.op = "or" THEN
    LET l == call_eval_tree(tree.args[1], story, w, st, mf) IN
    IF l.exc # "" THEN l
    ELSE
      LET t == Call_is_true(<<l.val>>) IN
      IF t.exc # "" THEN Exc(t.exc, l.w)
      ELSE IF t.val THEN Ret(TupleV(<<StrV(<<"b", "o", "o", "l", "e", "a", "n">>), BoolV(TRUE)>>), l.st, l.w)
      ELSE
        LET r == call_eval_tree(tree.args[2], story, l.w, l.st, mf) IN
        IF r.exc # "" THEN r
        ELSE LET t2 == Call_is_true(<<r.val>>) IN
             IF t2.exc # "" THEN Exc(t2.exc, r.w)
             ELSE Ret(TupleV(<<StrV(<<"b", "o", "o", "l", "e", "a", "n">>), BoolV(t2.val)>>), r.st, r.w)
  ELSE IF tree.op = "and" THEN
    LET l == call_eval_tree(tree.args[1], story, w, st, mf) IN
    IF l.exc # "" THEN l
    ELSE
      LET t == Call_is_true(<<l.val>>) IN
      IF t.exc # "" THEN Exc(t.exc, l.w)
      ELSE IF ~t.val THEN Ret(TupleV(<<StrV(<<"b", "o", "o", "l", "e", "a", "n">>), BoolV(FALSE)>>), l.st, l.w)
      ELSE
        LET r == call_eval_tree(tree.args[2], story, l.w, l.st, mf) IN
        IF r.exc # "" THEN r
        ELSE LET t2 == Call_is_true(<<r.val>>) IN
             IF t2.exc # "" THEN Exc(t2.exc, r.w)
             ELSE Ret(TupleV(<<StrV(<<"b", "o", "o", "l", "e", "a", "n">>), BoolV(t2.val)>>), r.st, r.w)
  ELSE IF tree.op = "!" THEN
    LET l == call_eval_tree(tree.args[1], story, w, st, mf) IN
    IF l.exc # "" THEN l
    ELSE
      LET w1 == [l.w EXCEPT !.heap = Append(@, l.w.heap[l.st])]     \* mstate
          mstate == Len(l.w.heap) + 1
      IN
      IF l.val.t = "list" THEN Exc("UnboundLocalError", w1)    \* mstate['@'] = v
      ELSE IF l.val.t = "dict" THEN
        LET Updated(m, md2) ==
              Ret(m.val, l.st, [m.w EXCEPT !.heap[m.st] = md2, !.heap[l.st] = DictUpdate(@, md2)])
            Cleared(m, md) ==
              IF <<"#">> \notin DOMAIN md \/ <<"?">> \notin DOMAIN md \/ <<"@">> \notin DOMAIN md
              THEN Exc("KeyError",
                       [m.w EXCEPT !.heap[m.st] =
                          IF <<"#">> \notin DOMAIN md THEN md
                          ELSE IF <<"?">> \notin DOMAIN md THEN DictDel(md, <<"#">>)
                          ELSE DictDel(DictDel(md, <<"#">>), <<"?">>)])
              ELSE Updated(m, DictDel(DictDel(DictDel(md, <<"#">>), <<"?">>), <<"@">>))
            Mapped(m) == IF m.exc # "" THEN m ELSE Cleared(m, m.w.heap[m.st])
            Over(wm) ==
              Mapped(map_dict_loop(tree, story, wm, mstate, mf, PV(wm.heap[mstate][<<"@">>]),
                                   1, <<>>))
        IN Over(SetItem(w1, mstate, <<"@">>, l.val))
      ELSE Exc("EvalError", l.w)
  ELSE
    LET a == eval_args(tree.args, 1, story, w, st, mf, <<>>) IN
    IF a.exc # "" THEN a ELSE op_result(tree.op, a.w, a.st, a.val)

\* eval_expr(expr, story, state, module_finder)
eval_expr(expr, story, w, st, mf) ==
  LET Parsed(c, pt) ==
        IF pt.exc # "" THEN Exc(pt.exc, c.w)
        ELSE call_eval_tree(pt.val, story, c.w, c.st, mf)
  IN Parsed(DeepCopy([w EXCEPT !.evals = Append(@, <<"expr", expr>>)], st), parse_expr(expr))

\* a <= b and a + b on two floats
NumLeq(a, b) == FloatCmp(a, b) \in {"lt", "eq"}
NumAdd(a, b) == Arith("FloatAdd", <<a, b>>)

\* "a += b" on two values. A list is extended in place with what iterating
\* over b gives: the elements of a list or a tuple, the characters of a
\* string, the keys of a dictionary.
PyAdd(a, b) ==
  IF IsNum(a) /\ IsNum(b) THEN
    IF a.t = "float" \/ b.t = "float" THEN Ok([t |-> "float", f |-> NumAdd(NumOf(a), NumOf(b))])
    ELSE Ok(IntV(IntOf(a) + IntOf(b)))
  ELSE IF a.t = "str" /\ b.t = "str" THEN Ok(StrV(PV(a) \o PV(b)))
  ELSE IF a.t = "tuple" /\ b.t = "tuple" THEN Ok(TupleV(PV(a) \o PV(b)))
  ELSE IF a.t = "list" /\ b.t \in {"list", "tuple"} THEN Ok([a EXCEPT !.l = @ \o PV(b)])
  ELSE IF a.t = "list" /\ b.t = "str"
    THEN Ok([a EXCEPT !.l = @ \o [k \in 1..Len(PV(b)) |-> StrV(<<PV(b)[k]>>)]])
  ELSE IF a.t = "list" /\ IsDict(b)
    THEN Ok([a EXCEPT !.l = @ \o [k \in 1..Len(Items(b)) |-> Items(b)[k][1]]])
  ELSE Raise("TypeError")

\* The order of two values as Python's <, >, <=, >= decide it: "lt", "eq" or
\* "gt", "un" for a nan, which is in no order with any number, and "err"
\* where Python raises TypeError.
RECURSIVE PyCmp(_, _)
RECURSIVE SeqCmp(_, _, _)
SeqCmp(s, t, k) ==
  IF k > Len(s) /\ k > Len(t) THEN "eq"
  ELSE IF k > Len(s) THEN "lt"
  ELSE IF k > Len(t) THEN "gt"
  ELSE IF PyEqIs(s[k], t[k]) THEN SeqCmp(s, t, k + 1)
  ELSE PyCmp(s[k], t[k])
PyCmp(a, b) ==
  IF IsNum(a) /\ IsNum(b) THEN FloatCmp(NumOf(a), NumOf(b))
  ELSE IF a.t = "str" /\ b.t = "str" THEN StrCmp(PV(a), PV(b), 1)
  ELSE IF a.t = b.t /\ a.t \in {"list", "tuple"} THEN SeqCmp(PV(a), PV(b), 1)
  ELSE "err"

\* is_numeric(typ)
is_numeric(typ) == typ \in {StrV(<<"i", "n", "t">>), StrV(<<"f", "l", "o", "a", "t">>)}

\* The body that less, greater, leq and geq share: lhs and rhs are (type,
\* value) pairs; holds is the set of orders for which the comparison is true.
\* The result is ("boolean", v) when the types allow the comparison and the
\* values can be compared, and the bare False otherwise.
comparison(holds, lhs, rhs) ==
  LET t1 == PV(lhs)[1]
      v1 == PV(lhs)[2]
      t2 == PV(rhs)[1]
      v2 == PV(rhs)[2]
  IN
  IF t1 = t2 \/ (is_numeric(t1) /\ is_numeric(t2)) THEN
    LET Ordered(c) ==
          IF c = "err" THEN BoolV(FALSE)
          ELSE TupleV(<<StrV(<<"b", "o", "o", "l", "e", "a", "n">>), BoolV(c \in holds)>>)
    IN Ordered(PyCmp(v1, v2))
  ELSE BoolV(FALSE)

\* less, greater, leq and geq (state, lhs, rhs)
less(st, lhs, rhs) == comparison({"lt"}, lhs, rhs)
greater(st, lhs, rhs) == comparison({"gt"}, lhs, rhs)
leq(st, lhs, rhs) == comparison({"lt", "eq"}, lhs, rhs)
geq(st, lhs, rhs) == comparison({"gt", "eq"}, lhs, rhs)

\* the loop of reduce_lst over lst[1:], from element k of lst
RECURSIVE reduce_loop(_, _, _, _, _, _, _)
reduce_loop(w, st, op, lst, k, result, seed) ==
  IF k > Len(lst) THEN Ret(result, st, w)
  ELSE
    LET WithElement(r2) ==
          IF r2.exc # "" THEN r2
          ELSE reduce_loop(r2.w, r2.st, op, lst, k + 1, r2.val, seed)
        WithSeed(r1) ==
          IF r1.exc # "" THEN r1
          ELSE WithElement(op_result(op, r1.w, r1.st, <<r1.val, lst[k]>>))
    IN WithSeed(op_result(op, w, st, <<result, seed>>))

\* reduce_lst(state, lhs, rhs, rrhs): lhs is ("list", lst), rhs ("op", op)
\* and rrhs the seed (typ, val). It returns the result and the state.
reduce_lst(w, st, lhs, rhs, rrhs) ==
  LET lst == PV(PV(lhs)[2])
      op == PV(PV(rhs)[2])
      typ == PV(rrhs)[1]
      Default(v) == Ret(TupleV(<<typ, v>>), st, w)
  IN
  IF Len(lst) = 0 /\ typ = StrV(<<"i", "n", "t">>) THEN Default(IntV(0))
  ELSE IF Len(lst) = 0 /\ typ = StrV(<<"f", "l", "o", "a", "t">>) THEN Default(IntV(0))
  ELSE IF Len(lst) = 0 /\ typ = StrV(<<"s", "t", "r", "i", "n", "g">>) THEN Default(StrV(<<>>))
  ELSE IF Len(lst) = 0 /\ typ = StrV(<<"l", "i", "s", "t">>) THEN Default(ListV(<<>>))
  ELSE IF Len(lst) = 0 /\ typ = StrV(<<"d", "i", "c", "t">>) THEN Default(DictV(<<>>))
  ELSE IF Len(lst) = 0 THEN Exc("IndexError", w)
  ELSE reduce_loop(w, st, op, lst, 2, lst[1], TupleV(<<typ, PV(rrhs)[2]>>))

\* "key in obj" and "obj[key]"
IsSubstring(k, s) == \E i \in 0..(Len(s) - Len(k)) : Slice(s, i, i + Len(k)) = k
KeysAt(items, key) == {k \in 1..Len(items) : PyEqIs(items[k][1], key)}
PyIn(key, obj) ==
  CASE obj.t = "str" -> IF key.t = "str" THEN Ok(IsSubstring(PV(key), PV(obj))) ELSE Raise("TypeError")
    [] obj.t \in {"list", "tuple"} \/ IsDict(obj) ->
         IF IsDict(obj) /\ ~Hashable(key) THEN Raise("TypeError")
         ELSE Ok(KeysAt(IF IsDict(obj) THEN Items(obj)
                        ELSE SubSeq([k \in 1..Len(PV(obj)) |-> <<PV(obj)[k]>>], 1, Len(PV(obj))),
                        key) # {})
    [] OTHER -> Raise("TypeError")
PyIndex(obj, key) ==
  CASE obj.t \in {"str", "list", "tuple"} ->
         IF key.t \notin {"int", "bool"} THEN Raise("TypeError")
         ELSE LET n == IntOf(key)
                  i == IF n < 0 THEN n + Len(PV(obj)) ELSE n
              IN IF i < 0 \/ i >= Len(PV(obj)) THEN Raise("IndexError")
                 ELSE Ok(IF obj.t = "str" THEN StrV(<<At(PV(obj), i)>>) ELSE At(PV(obj), i))
    [] IsDict(obj) ->
         LET Found(items, ks) ==
               IF ks = {} THEN Raise("KeyError") ELSE Ok(items[CHOOSE k \in ks : TRUE][2])
             Keyed(items) == Found(items, KeysAt(items, key))
         IN IF ~Hashable(key) THEN Raise("TypeError") ELSE Keyed(Items(obj))
    [] OTHER -> Raise("TypeError")
\* len(obj)
PyLen(obj) ==
  IF obj.t \in {"str", "list", "tuple"} \/ IsDict(obj) THEN Ok(Len(Items(obj)))
  ELSE Raise("TypeError")

\* set_(mf, story, state, var, expr)
set_(mf, story, w, st, var, expr) ==
  LET r == call_eval_expr(expr, story, w, st, mf) IN
  IF r.exc # "" THEN r
  ELSE LET w1 == SetItem(r.w, r.st, Strip(var), r.val)
       IN Ret(w1.heap[r.st][Strip(var)], r.st, w1)

\* add(mf, story, state, var, expr): "state[var] += val" extends a list in
\* place, so that every name of the list, val too, has the longer list; a
\* sum that is a nan is a new object
add(mf, story, w, st, var, expr) ==
  LET r == call_eval_expr(expr, story, w, st, mf) IN
  IF r.exc # "" THEN r
  ELSE IF Strip(var) \notin DOMAIN r.w.heap[r.st] THEN Exc("KeyError", r.w)
  ELSE LET old == r.w.heap[r.st][Strip(var)]
           n == Max2(r.w.next, 1 + MaxOf(Tags(r.val)))
           Summed(val, w1, s) ==
             IF s.exc # "" THEN Exc(s.exc, r.w)
             ELSE IF old.t = "list"
               THEN Ret(Rewritten(val, old.id, s.val), r.st, Mutate(w1, old.id, s.val))
             ELSE Ret(val, r.st,
                      IF s.val.t = "float" /\ PV(s.val).k = "nan"
                      THEN SetItem([w1 EXCEPT !.next = @ + 1], r.st, Strip(var),
                                   [s.val EXCEPT !.f.e = w1.next])
                      ELSE SetItem(w1, r.st, Strip(var), s.val))
       IN Summed(Adopt(r.val, n), [r.w EXCEPT !.next = n + Fresh(r.val)],
                 PyAdd(old, Adopt(r.val, n)))

\* the loop of eval_ over its arguments
RECURSIVE eval_loop(_, _, _, _, _, _, _)
eval_loop(mf, story, w, st, args, k, result) ==
  IF k > Len(args) THEN Ret(ListV(result), st, w)
  ELSE LET r == call_eval_expr(args[k], story, w, st, mf) IN
       IF r.exc # "" THEN r
       ELSE eval_loop(mf, story, r.w, r.st, args, k + 1, Append(result, r.val))

\* eval_(mf, story, state, *args): with one argument it reads "arg", a local
\* variable that is not yet bound
eval_(mf, story, w, st, args) ==
  IF Len(args) = 1 THEN Exc("UnboundLocalError", w)
  ELSE eval_loop(mf, story, w, st, args, 1, <<>>)

\* the loop of text over its arguments; the module finder is passed in the
\* place of the context
RECURSIVE text_args_loop(_, _, _, _, _, _, _)
text_args_loop(mf, story, w, st, args, k, results) ==
  IF k > Len(args) THEN Ret(StrV(Join(<<>>, results)), st, w)
  ELSE LET r == call_eval_text(args[k], story, w, st, FinderValue(mf), NoFinder) IN
       IF r.exc # "" THEN r
       ELSE text_args_loop(mf, story, r.w, r.st, args, k + 1, Append(results, PV(r.val)))

\* text(mf, story, state, *args)
text(mf, story, w, st, args) ==
  IF Len(args) = 1 THEN Exc("UnboundLocalError", w)
  ELSE text_args_loop(mf, story, w, st, args, 1, <<>>)

\* lookup(mf, story, state, obj, key): when the key is missing, error() is
\* called without its second argument
lookup(mf, story, w, st, obj, key) ==
  LET o == call_eval_expr(obj, story, w, st, mf) IN
  IF o.exc # "" THEN o
  ELSE
    LET k == call_eval_expr(key, story, o.w, o.st, mf) IN
    IF k.exc # "" THEN k
    ELSE
      LET Sought(found, v) ==
            IF found.exc # "" THEN Exc(found.exc, k.w)
            ELSE IF ~found.val THEN Exc("TypeError", k.w)
            ELSE IF v.exc # "" THEN Exc(v.exc, k.w)
            ELSE Ret(v.val, k.st, k.w)
      IN Sought(PyIn(k.val, o.val), PyIndex(o.val, k.val))

\* context(mf, story, state, n)
CONTEXT == <<"_", "c", "o", "n", "t", "e", "x", "t">>
context(mf, story, w, st, n) ==
  LET r == call_eval_expr(n, story, w, st, mf) IN
  IF r.exc # "" THEN r
  ELSE IF ~IsNum(r.val) THEN Exc("TypeError", r.w)
  ELSE IF ~NumLeq(FloatOfInt(1), NumOf(r.val)) THEN Ret(NoneV, r.st, r.w)
  ELSE IF CONTEXT \notin DOMAIN r.w.heap[r.st] THEN Exc("KeyError", r.w)
  ELSE
    LET ctx == r.w.heap[r.st][CONTEXT]
        \* len(state['_context']) and state['_context'][n - 1]
        Measured(len, v) ==
          IF len.exc # "" THEN Exc(len.exc, r.w)
          ELSE IF ~NumLeq(NumOf(r.val), FloatOfInt(len.val)) THEN Ret(NoneV, r.st, r.w)
          ELSE IF v.exc # "" THEN Exc(v.exc, r.w)
          ELSE Ret(v.val, r.st, r.w)
    IN Measured(PyLen(ctx),
                PyIndex(ctx, IF r.val.t = "float"
                             THEN [t |-> "float", f |-> NumAdd(PV(r.val), FloatOfInt(-1))]
                             ELSE IntV(IntOf(r.val) - 1)))

\* the result of cond_base: "even[i]" or "el" evaluated as text, with the
\* module finder in the place of the context, or as an expression
cond_result(mf, story, w, st, arg, as_text) ==
  IF as_text THEN call_eval_text(arg, story, w, st, FinderValue(mf), NoFinder)
  ELSE call_eval_expr(arg, story, w, st, mf)

\* the loop of cond_base over the conditions, from condition i (from 0)
RECURSIVE cond_loop(_, _, _, _, _, _, _, _, _)
cond_loop(mf, story, w, st, odd, even, el, i, as_text) ==
  IF i >= Len(odd) THEN
    IF el.t = "none" THEN Ret(NoneV, st, w)
    ELSE cond_result(mf, story, w, st, PV(el), as_text)
  ELSE
    LET c == call_eval_expr(At(odd, i), story, w, st, mf) IN
    IF c.exc # "" THEN c
    ELSE IF Truthy(c.val) THEN cond_result(mf, story, c.w, c.st, At(even, i), as_text)
    ELSE cond_loop(mf, story, c.w, c.st, odd, even, el, i + 1, as_text)

\* cond_base(mf, story, state, *args, as_text)
cond_base(mf, story, w, st, args, as_text) ==
  LET odd0 == [k \in 1..((Len(args) + 1) \div 2) |-> args[2 * k - 1]]
      even == [k \in 1..(Len(args) \div 2) |-> args[2 * k]]
      el == IF Len(odd0) > Len(even) THEN StrV(odd0[Len(odd0)]) ELSE NoneV
      odd == IF Len(odd0) > Len(even) THEN SubSeq(odd0, 1, Len(odd0) - 1) ELSE odd0
  IN cond_loop(mf, story, w, st, odd, even, el, 0, as_text)

\* if_(mf, story, state, *args) and select(mf, story, state, *args)
if_(mf, story, w, st, args) == cond_base(mf, story, w, st, args, FALSE)
select(mf, story, w, st, args) == cond_base(mf, story, w, st, args, TRUE)

\* once(mf, story, state, arg) and again(mf, story, state, arg)
FIRST == <<"_", "f", "i", "r", "s", "t">>
once(mf, story, w, st, arg) ==
  IF FIRST \notin DOMAIN w.heap[st] THEN Exc("KeyError", w)
  ELSE IF Truthy(w.heap[st][FIRST]) THEN call_eval_text(arg, story, w, st, FinderValue(mf), NoFinder)
  ELSE Ret(StrV(<<>>), st, w)
again(mf, story, w, st, arg) ==
  IF FIRST \notin DOMAIN w.heap[st] THEN Exc("KeyError", w)
  ELSE IF Truthy(w.heap[st][FIRST]) THEN Ret(StrV(<<>>), st, w)
  ELSE call_eval_text(arg, story, w, st, FinderValue(mf), NoFinder)

\* the names that the decorator mb registers in BUILTINS
BUILTINS ==
  {<<"s", "e", "t">>, <<"a", "d", "d">>, <<"e", "v", "a", "l">>, <<"t", "e", "x", "t">>, <<"l", "o", "o", "k", "u", "p">>, <<"c", "o", "n", "t", "e", "x", "t">>, <<"i", "f">>, <<"s", "e", "l", "e", "c", "t">>,
   <<"o", "n", "c", "e">>, <<"a", "g", "a", "i", "n">>}

\* BUILTINS[name](module_finder, story, state, *args): a call with the wrong
\* number of arguments raises TypeError
CallBuiltin(name, mf, story, w, st, args) ==
  CASE name = <<"s", "e", "t">> ->
         IF Len(args) # 2 THEN Exc("TypeError", w) ELSE set_(mf, story, w, st, args[1], args[2])
    [] name = <<"a", "d", "d">> ->
         IF Len(args) # 2 THEN Exc("TypeError", w) ELSE add(mf, story, w, st, args[1], args[2])
    [] name = <<"e", "v", "a", "l">> -> eval_(mf, story, w, st, args)
    [] name = <<"t", "e", "x", "t">> -> text(mf, story, w, st, args)
    [] name = <<"l", "o", "o", "k", "u", "p">> ->
         IF Len(args) # 2 THEN Exc("TypeError", w)
         ELSE lookup(mf, story, w, st, args[1], args[2])
    [] name = <<"c", "o", "n", "t", "e", "x", "t">> ->
         IF Len(args) # 1 THEN Exc("TypeError", w) ELSE context(mf, story, w, st, args[1])
    [] name = <<"i", "f">> -> if_(mf, story, w, st, args)
    [] name = <<"s", "e", "l", "e", "c", "t">> -> select(mf, story, w, st, args)
    [] name = <<"o", "n", "c", "e">> ->
         IF Len(args) # 1 THEN Exc("TypeError", w) ELSE once(mf, story, w, st, args[1])
    [] name = <<"a", "g", "a", "i", "n">> ->
         IF Len(args) # 1 THEN Exc("TypeError", w) ELSE again(mf, story, w, st, args[1])

\* the list of strings that a macro gets as its arguments, as a value
ArgsValue(args) == ListV([k \in 1..Len(args) |-> StrV(args[k])])

\* eval_macro from "if name.count('.') == 1" on: a macro of a module
macro_of_module(name, args, story, w, st, mf) ==
  LET dot == IndexOf(name, ".", 0)
      module_name == Slice(name, 0, dot)
      inner_name == SliceFrom(name, dot + 1)
  IN
  IF ~\E k \in 1..Len(story.modules) : story.modules[k] = module_name THEN
    error(<<"M", "o", "d", "u", "l", "e", " ", "'">> \o module_name \o <<"'", " ", "f", "o", "r", " ", "m", "a", "c", "r", "o", " ", "'">> \o name
            \o <<"'", " ", "i", "s", " ", "n", "o", "t", " ", "i", "n", "c", "l", "u", "d", "e", "d", " ", "b", "y", " ", "s", "t", "o", "r", "y", " ", "'">> \o story.title \o <<"'", ".">>, w, st)
  ELSE IF ~mf.present THEN
    error(<<"A", "t", "t", "e", "m", "p", "t", " ", "t", "o", " ", "u", "s", "e", " ", "m", "o", "d", "u", "l", "e", " ", "'">> \o module_name \o <<"'", " ", "w", "i", "t", "h", "o", "u", "t", " ", "a", " ", "m", "o", "d", "u", "l", "e", " ", "f", "i", "n", "d", "e", "r", ".">>, w, st)
  ELSE
    LET w1 == [w EXCEPT !.calls = Append(@, module_name)] IN      \* module_finder(module_name)
    IF module_name \notin DOMAIN mf.mods THEN
      error(<<"M", "o", "d", "u", "l", "e", " ", "'">> \o module_name \o <<"'", " ", "n", "o", "t", " ", "f", "o", "u", "n", "d", ".">>, w1, st)
    ELSE IF inner_name \notin DOMAIN mf.mods[module_name].nodes THEN
      error(<<"M", "o", "d", "u", "l", "e", " ", "'">> \o module_name \o <<"'", " ", "d", "o", "e", "s", "n", "'", "t", " ", "d", "e", "f", "i", "n", "e", " ", "m", "a", "c", "r", "o", " ", "'">> \o inner_name
              \o <<"'", ".">>, w1, st)
    ELSE call_eval_text(mf.mods[module_name].nodes[inner_name].content, story, w1, st,
                   ArgsValue(args), mf)

\* eval_macro from "elif name in BUILTINS" on: the call of a builtin, with
\* every exception turned into an error
macro_builtin(name, args, story, w, st, mf) ==
  LET Caught(r) ==
  IF r.exc = "" THEN r
  ELSE error(<<"E", "r", "r", "o", "r", " ", "c", "a", "l", "l", "i", "n", "g", " ", "b", "u", "i", "l", "t", "-", "i", "n", " ", "'">> \o name \o <<"'", " ", "w", "i", "t", "h", " ", "a", "r", "g", "u", "m", "e", "n", "t", "s", ":", "\n">>
               \o Join(<<"\n">>, args) \o <<"\n", "D", "e", "t", "a", "i", "l", "s", ":", "\n">> \o <<r.exc>>, r.w, st)
  IN Caught(CallBuiltin(name, mf, story, w, st, args))

\* a faulty eval_macro: it looks for a builtin before it looks for a node
eval_macro_builtin_first(name, args, story, w, st, mf) ==
  LET c == DeepCopy(w, st) IN
  IF name \in BUILTINS THEN macro_builtin(name, args, story, c.w, c.st, mf)
  ELSE IF name \in DOMAIN story.nodes
  THEN call_eval_text(story.nodes[name].content, story, c.w, c.st, ArgsValue(args), mf)
  ELSE IF Count(name, ".") = 1 THEN macro_of_module(name, args, story, c.w, c.st, mf)
  ELSE error(<<"U", "n", "r", "e", "c", "o", "g", "n", "i", "z", "e", "d", " ", "m", "a", "c", "r", "o", " ", "'">> \o name \o <<"'", ".">>, c.w, c.st)

\* eval_macro(name, args, story, state, module_finder)
eval_macro(name, args, story, w, st, mf) ==
  LET c == DeepCopy(w, st) IN
  IF name \in DOMAIN story.nodes
  THEN call_eval_text(story.nodes[name].content, story, c.w, c.st, ArgsValue(args), mf)
  ELSE IF Count(name, ".") = 1 THEN macro_of_module(name, args, story, c.w, c.st, mf)
  ELSE IF name \in BUILTINS THEN macro_builtin(name, args, story, c.w, c.st, mf)
  ELSE error(<<"U", "n", "r", "e", "c", "o", "g", "n", "i", "z", "e", "d", " ", "m", "a", "c", "r", "o", " ", "'">> \o name \o <<"'", ".">>, c.w, c.st)

\* the names of the node-local variables of a state
IsLocalName(v) == v # <<>> /\ v[1] = "_" /\ v[Len(v)] # "_"

\* the loop of eval_text that splits the text into strings and macro calls
RECURSIVE eval_text_loop(_, _, _, _, _, _, _)
eval_text_loop(text_, i, bits, story, w, st, mf) ==
  IF i >= Len(text_) THEN Ret(bits, st, w)
  ELSE
    LET ms == MACRO_START_search(text_, i) IN
    IF ~ms.found THEN Ret(Append(bits, SliceFrom(text_, i)), st, w)
    ELSE
      LET end == matching_brace(text_, ms.start, "(", ")") IN
      IF end.exc = "UnmatchedError" THEN eval_text_loop(text_, ms.end + 1, bits, story, w, st, mf)
      ELSE IF end.exc # "" THEN Exc(end.exc, w)
      ELSE
        LET macro_args == split_macro_args(Slice(text_, ms.end, end.val)) IN
        IF macro_args.exc # "" THEN Exc(macro_args.exc, w)
        ELSE
          LET r == call_eval_macro(ms.name, macro_args.val, story, w, st, mf) IN
          IF r.exc # "" THEN r
          ELSE eval_text_loop(text_, end.val + 1,
                              bits \o <<Slice(text_, i, ms.start), to_string(r.val)>>,
                              story, r.w, r.st, mf)

\* eval_text(text, story, state, context, module_finder)
eval_text(text_, story, w, st, context_, mf) ==
  LET ctx == IF Truthy(context_) THEN context_ ELSE ListV(<<>>)
      Restored(r, local_vars) ==
        IF r.exc # "" THEN r
        ELSE Ret(StrV(Join(<<>>, r.val)), r.st,
                 [r.w EXCEPT !.heap[r.st] = DictUpdate(@, local_vars)])
      Expanded(c, w1, local_vars) ==
        [w |-> SetItem(w1, c.st, CONTEXT, ctx), st |-> c.st, local_vars |-> local_vars]
      CopyOf(v, ids, n) == Renamed(v, [i \in ids |-> n + Cardinality({j \in ids : j < i})])
      Locals(c, locals) ==
        Expanded(c,
                 [c.w EXCEPT !.next = @ + Sum([x \in DOMAIN locals |-> Cardinality(Ids(locals[x]))])],
                 [v \in DOMAIN locals |->
                    CopyOf(locals[v], Ids(locals[v]),
                           c.w.next + Sum([x \in {y \in DOMAIN locals : StrCmp(y, v, 1) = "lt"} |->
                                             Cardinality(Ids(locals[x]))]))])
      Of(c, d) == Locals(c, [v \in {x \in DOMAIN d : IsLocalName(x)} |-> d[v]])
      Copied(c) == Of(c, c.w.heap[c.st])
      \* the copy of the state with its context, and the saved local variables
      own == Copied(DeepCopy([w EXCEPT !.evals = Append(@, <<"text", text_>>)], st))
  IN Restored(eval_text_loop(text_, 0, <<>>, story, own.w, own.st, mf), own.local_vars)

\* the call c of a function of the evaluator
Evaluate(c) ==
  CASE c.fn = "eval_tree" -> eval_tree(c.tree, c.story, c.w, c.st, c.mf)
    [] c.fn = "eval_expr" -> eval_expr(c.expr, c.story, c.w, c.st, c.mf)
    [] c.fn = "eval_macro" -> eval_macro(c.name, c.args, c.story, c.w, c.st, c.mf)
    [] c.fn = "eval_text" -> eval_text(c.text, c.story, c.w, c.st, c.context, c.mf)

(***************************************************************************)
(* The story layer: Story.initial_state, Story.visit, Story.display_node   *)
(***************************************************************************)
\* whether position p of s is a word boundary (the \b of a regular expression)
IsBoundary(s, p) ==
  (p > 0 /\ IsWord(At(s, p - 1))) # (p < Len(s) /\ IsWord(At(s, p)))

\* re.sub(r"\b{opt}\b", "[{opt}]", content), from position i.  An empty
\* option matches the empty string at every word boundary, the end of the
\* content included.
RECURSIVE sub_option(_, _, _)
sub_option(content, opt, i) ==
  IF i + Len(opt) <= Len(content) /\ Slice(content, i, i + Len(opt)) = opt
     /\ IsBoundary(content, i) /\ IsBoundary(content, i + Len(opt))
  THEN IF opt = <<>>
       THEN <<"[", "]">> \o (IF i < Len(content)
                            THEN <<At(content, i)>> \o sub_option(content, opt, i + 1)
                            ELSE <<>>)
       ELSE <<"[">> \o opt \o <<"]">> \o sub_option(content, opt, i + Len(opt))
  ELSE IF i >= Len(content) THEN <<>>
  ELSE <<At(content, i)>> \o sub_option(content, opt, i + 1)

\* highlight_content(content, successors, highlight="bracket")
RECURSIVE highlight_content(_, _)
highlight_content(content, successors) ==
  IF successors = <<>> THEN content
  ELSE highlight_content(sub_option(content, Head(successors)[1], 0), Tail(successors))

\* Story.initial_state()
initial_state(story) ==
  LET r1 == DictSet(story.setup, <<"_", "t", "i", "t", "l", "e", "_">>, StrV(story.title))
      r2 == DictSet(r1, <<"_", "a", "u", "t", "h", "o", "r", "_">>, StrV(story.author))
      r3 == DictSet(r2, <<"_", "s", "t", "a", "t", "u", "s", "_">>, StrV(<<"b", "e", "g", "i", "n", "n", "i", "n", "g">>))
      r4 == DictSet(r3, <<"_", "v", "i", "s", "i", "t", "e", "d", "_">>, DictV(<<>>))
  IN DictSet(r4, ERRORS, ListV(<<>>))

\* Story.visit(state, node, prev): edits the state it is given and returns it
VISITED == <<"_", "v", "i", "s", "i", "t", "e", "d", "_">>
visit(story, w, st, node, prev) ==
  LET Stored(w2, visited, items) ==
        Ret(NoneV, st, IF visited.t = "dict"
                       THEN Mutate(w2, visited.id, [visited EXCEPT !.d = items])
                       ELSE SetItem(w2, st, VISITED, DictV(items)))
      \* the entry k of the node, where it has one, and its count plus one
      Seen(w2, visited, items, found, k, n) ==
        IF ~IsDict(visited) THEN Exc("TypeError", w2)
        ELSE IF found /\ n.exc # "" THEN Exc(n.exc, w2)
        ELSE Stored(w2, visited,
                    IF found THEN [items EXCEPT ![k] = <<items[k][1], n.val>>]
                    ELSE Append(items, <<StrV(node), IntV(1)>>))
      Counted(w2, visited, items, found, k) ==
        Seen(w2, visited, items, found, k, PyAdd(items[k][2], IntV(1)))
      Sought(w1, visited, found) ==
        IF found.exc # "" THEN Exc(found.exc, w1)
        ELSE Counted(SetItem(w1, st, <<"_", "o", "n", "c", "e">>, BoolV(~found.val)), visited,
                     Items(visited), found.val,
                     CHOOSE k \in 1..Len(Items(visited)) : PyEq(Items(visited)[k][1], StrV(node)))
      Named(w1) ==
        IF VISITED \notin DOMAIN w1.heap[st] THEN Exc("KeyError", w1)
        ELSE Sought(w1, w1.heap[st][VISITED], PyIn(StrV(node), w1.heap[st][VISITED]))
  IN Named(SetItem(SetItem(w, st, <<"_", "p", "r", "e", "v">>, prev), st,
                   <<"_", "n", "o", "d", "e">>, StrV(node)))

\* Story.display_node(node, state, context): node is the name of a node
display_node(story, mf, w, st, node, context_) ==
  IF node \notin DOMAIN story.nodes THEN Exc("AttributeError", w)    \* self.get(node) is None
  ELSE
    LET Highlighted(r) ==
          IF r.exc # "" THEN r
          ELSE Ret(StrV(highlight_content(PV(r.val), story.nodes[node].successors)), r.st, r.w)
    IN Highlighted(call_eval_text(story.nodes[node].content, story, w, st, context_, mf))

(***************************************************************************)
(* A session: a story, its module finder and the state dictionary that the *)
(* caller holds and hands to the evaluator and to the story layer.         *)
(***************************************************************************)
\* the largest number of operations of a session
MaxSteps == 2

\* the module "lib", and the story of the session: it includes "lib" and
\* "gone" (which the finder does not find), its node "set" has the name of a
\* builtin and the content of its node "loop" calls the node itself
TheLibrary ==
  Story(<<"l", "i", "b">>, <<"a", "u">>, <<"i", "n", "n", "e", "r">>, (<<"i", "n", "n", "e", "r">> :> StoryNode(<<"i", "n", " ", "l", "i", "b">>, <<>>)), <<>>, <<>>)
TheStory ==
  Story(<<"s", "t">>, <<"a", "u">>, <<"s", "t", "a", "r", "t">>,
        (<<"s", "t", "a", "r", "t">> :> StoryNode(<<"h", "i", " ", "(", "o", "n", "c", "e", "~", " ", "a", ")", "(", "a", "g", "a", "i", "n", "~", " ", "b", ")">>, <<>>))
          @@ (<<"h", "a", "l", "l">> :> StoryNode(<<"t", "h", "e", " ", "h", "a", "l", "l">>, <<<<<<"h", "a", "l", "l">>, StrV(<<"s", "t", "a", "r", "t">>)>>>>))
          @@ (<<"s", "e", "t">> :> StoryNode(<<"s", "h", "a", "d", "o", "w">>, <<>>))
          @@ (<<"l", "o", "o", "p">> :> StoryNode(<<"(", "l", "o", "o", "p", "~", ")">>, <<>>)),
        <<<<"l", "i", "b">>, <<"g", "o", "n", "e">>>>,
        (<<"x">> :> IntV(5)))
TheFinder == Finder((<<"l", "i", "b">> :> TheLibrary))

\* the states a session starts from: the story's initial state, and the
\* states of the examples of eval_macro ({}) and eval_text; in the last one
\* the variable lost holds 0
InitialStates ==
  {initial_state(TheStory), <<>>, (<<"_", "f", "i", "r", "s", "t">> :> BoolV(TRUE)) @@ (<<"l", "o", "s", "t">> :> IntV(0))}

\* the calls of eval_macro: name, raw arguments and module finder; among them
\* the call of the example in eval_macro's docstring, an if whose conditions
\* are the expressions 1 - 1, 2 * 0 and `a` or False
MacroCall(name, args, mf) == [name |-> name, args |-> args, mf |-> mf]
MacroCalls ==
  {MacroCall(<<"s", "e", "t">>, <<<<"y">>, <<"1">>>>, NoFinder),
   MacroCall(<<"a", "d", "d">>, <<<<"x">>, <<" ", "1">>>>, NoFinder),
   MacroCall(<<"a", "d", "d">>, <<<<"_", "x">>, <<"1">>>>, NoFinder),
   MacroCall(<<"n", "o", "n", "e", "x", "i", "s", "t", "e", "n", "t">>, <<>>, TheFinder),
   MacroCall(<<"l", "i", "b", ".", "i", "n", "n", "e", "r">>, <<<<"a">>>>, TheFinder),
   MacroCall(<<"l", "i", "b", ".", "i", "n", "n", "e", "r">>, <<<<"a">>>>, NoFinder),
   MacroCall(<<"l", "i", "b", ".", "n", "o", "p", "e">>, <<>>, TheFinder),
   MacroCall(<<"g", "o", "n", "e", ".", "x">>, <<>>, TheFinder),
   MacroCall(<<"z", "z", ".", "y">>, <<>>, TheFinder),
   MacroCall(<<"i", "f">>, <<<<"F", "a", "l", "s", "e">>, <<"r", "1">>, <<"T", "r", "u", "e">>, <<"r", "2">>, <<"z", "z">>, <<"r", "3">>>>, NoFinder),
   MacroCall(<<"i", "f">>, <<<<"0">>, <<"r", "1">>, <<"F", "a", "l", "s", "e">>, <<"r", "2">>, <<"e", "l">>>>, NoFinder),
   MacroCall(<<"i", "f">>, <<<<"F", "a", "l", "s", "e">>, <<"r", "1">>, <<"e", "l", "s", "e">>, <<"1">>>>, NoFinder),
   MacroCall(<<"i", "f">>, <<<<"F", "a", "l", "s", "e">>, <<"r", "1">>>>, NoFinder),
   MacroCall(<<"i", "f">>, <<>>, NoFinder),
   MacroCall(<<"i", "f">>, <<<<"1", " ", "-", " ", "1">>, <<Backquote, "n", "o", "p", "e", Backquote>>, <<"2", " ", "*", " ", "0">>, <<"n", "o", "p", "e">>, <<Backquote, "a", Backquote, " ", "o", "r", " ", "F", "a", "l", "s", "e">>, <<Backquote, "y", "e", "s", Backquote>>, <<"e", "l", "s", "e">>, <<"0">>>>, NoFinder),
   MacroCall(<<"i", "f">>, <<<<"1", " ", "-", " ", "1">>, <<"x">>>>, NoFinder),
   MacroCall(<<"i", "f">>, <<<<"l", "o", "s", "t">>, <<"r", "1">>, <<"x">>, <<"7">>>>, NoFinder),
   MacroCall(<<"s", "e", "l", "e", "c", "t">>, <<<<"2", " ", "*", " ", "0">>, <<"r", "1">>, <<"e", "l">>>>, NoFinder),
   MacroCall(<<"s", "e", "l", "e", "c", "t">>, <<<<"F", "a", "l", "s", "e">>, <<"r", "1">>, <<"1">>, <<"r", "2">>, <<"z", "z">>, <<"r", "3">>>>, TheFinder),
   MacroCall(<<"s", "e", "l", "e", "c", "t">>, <<<<"0">>, <<"r", "1">>, <<"e", "l">>>>, NoFinder),
   MacroCall(<<"o", "n", "c", "e">>, <<<<"a">>>>, NoFinder),
   MacroCall(<<"a", "g", "a", "i", "n">>, <<<<"a">>>>, NoFinder),
   MacroCall(<<"e", "v", "a", "l">>, <<<<"1">>, <<"x">>>>, NoFinder),
   MacroCall(<<"t", "e", "x", "t">>, <<<<"a">>, <<"b">>>>, NoFinder),
   MacroCall(<<"c", "o", "n", "t", "e", "x", "t">>, <<<<"1">>>>, NoFinder),
   MacroCall(<<"l", "o", "o", "k", "u", "p">>, <<<<"x">>, <<"1">>>>, NoFinder),
   MacroCall(<<"l", "o", "o", "p">>, <<>>, NoFinder)}

\* the expressions and texts evaluated, and the contexts given to eval_text
Exprs ==
  {<<"1">>, <<"x">>, <<"z", "z">>, <<"1", " ", "*", " ", "2", " ", "+", " ", "3">>, <<"1", " ", "+", " ", "2", " ", "*", " ", "3">>, <<"F", "a", "l", "s", "e", " ", "a", "n", "d", " ", "(", "1", "/", "0", ")">>, <<"T", "r", "u", "e", " ", "o", "r", " ", "z", "z">>,
   <<"-", " ", "x">>, <<>>}
Texts ==
  {<<"(", "s", "e", "t", "~", " ", "y", " ", "~", " ", "1", ")", "(", "a", "d", "d", "~", " ", "y", " ", "~", " ", "2", ")">>, <<"(", "a", "d", "d", "~", " ", "n", "o", "p", "e", " ", "~", " ", "1", ")">>, <<"(", "o", "n", "c", "e", "~", " ", "(", "c", "o", "n", "t", "e", "x", "t", "~", " ", "0", ")", ")">>, <<"(", "c", "o", "n", "t", "e", "x", "t", "~", " ", "0", ")">>,
   <<"(", "t", "e", "x", "t", "~", " ", "(", "l", "i", "b", ".", "i", "n", "n", "e", "r", "~", " ", "a", ")", ")">>, <<"(", "l", "i", "b", ".", "i", "n", "n", "e", "r", "~", " ", "a", ")">>,
   <<"p", "l", "a", "i", "n">>, <<"(", "n", "o", "n", "e", "x", "i", "s", "t", "e", "n", "t", "~", ")", " ", "(", "a", "d", "d", "~", " ", "x", " ", "~", " ", "1", ")">>, <<"(", "s", "e", "t", "~", " ", "_", "x", " ", "~", " ", "1", ")">>, <<"a", " ", "(", "s", "e", "t", "~", " ", "x">>, <<>>}
Contexts == {NoneV, ListV(<<StrV(<<"c">>)>>)}

\* parse trees handed to eval_tree
ValueTree(v) == [state |-> "complete", op |-> "value", value |-> v]
OpTree(op, args) ==
  [state |-> "complete", grouped |-> TRUE, op |-> op, arity |-> Len(args), args |-> args]
\* comparisons of two operands of different types that are not both numbers:
\* plain values, and (type, value) pairs
MixedComparisons ==
  {OpTree("<", <<ValueTree(StrV(<<"a">>)), ValueTree(IntV(1))>>),
   OpTree(">", <<ValueTree(ListV(<<IntV(1)>>)), ValueTree(DictV(<<>>))>>),
   OpTree("<=", <<ValueTree(TupleV(<<StrV(<<"s", "t", "r", "i", "n", "g">>), StrV(<<"a">>)>>)),
                  ValueTree(TupleV(<<StrV(<<"i", "n", "t">>), IntV(1)>>))>>),
   OpTree(">=", <<ValueTree(TupleV(<<StrV(<<"l", "i", "s", "t">>), ListV(<<>>)>>)),
                  ValueTree(TupleV(<<StrV(<<"d", "i", "c", "t">>), DictV(<<>>)>>))>>)}
\* the map operator over a list, a dictionary, an empty dictionary and a
\* number, with the macro call (add~ x ~ 1) as its body
MapTrees ==
  {OpTree("!", <<ValueTree(c), ValueTree(FunctionCall(<<"a", "d", "d">>, <<<<"x">>, <<"1">>>>))>>) :
     c \in {ListV(<<IntV(1), IntV(2)>>), DictV(<<<<StrV(<<"k">>), IntV(1)>>, <<StrV(<<"j">>), IntV(2)>>>>),
            DictV(<<>>), IntV(3)}}
Trees ==
  {OpTree("and", <<ValueTree(BoolV(FALSE)), ValueTree(VariableLookup(<<"z", "z">>))>>),
   OpTree("or", <<ValueTree(BoolV(TRUE)), ValueTree(VariableLookup(<<"z", "z">>))>>),
   OpTree("and", <<ValueTree(BoolV(TRUE)), ValueTree(IntV(1))>>),
   OpTree("or", <<ValueTree(VariableLookup(<<"z", "z">>)), ValueTree(IntV(1))>>),
   OpTree("+", <<ValueTree(IntV(1)), ValueTree(IntV(2))>>),
   ValueTree(FunctionCall(<<"a", "d", "d">>, <<<<"x">>, <<"1">>>>)),
   ValueTree(VariableLookup(<<"z", "z">>))}
  \cup MixedComparisons \cup MapTrees

NodeNames == {<<"s", "t", "a", "r", "t">>, <<"h", "a", "l", "l">>}

VARIABLES state, last, steps, pin, pout
vars == <<state, last, steps, pin, pout>>

NoParse == [kind |-> "none"]

Init ==
  /\ state \in {CanonicalState(d) : d \in InitialStates}
  /\ last = [op |-> "none"]
  /\ steps = 0
  /\ pin = NoParse
  /\ pout = NoParse

\* The caller calls an operation with its state dictionary (reference 1 of a
\* new world) and keeps the state that the operation returns; when the
\* operation raises, it keeps its own dictionary. last records the call:
\* the dictionary before and after the call, and what was returned. The
\* states are kept with their identities numbered anew (Canonical) and the
\* value without them (Plain).
Called(op, input, r) ==
  /\ steps < MaxSteps
  /\ steps' = steps + 1
  /\ state' = Canonical(IF r.exc = "" THEN r.w.heap[r.st] ELSE r.w.heap[1])
  /\ last' = [op |-> op, input |-> input, before |-> state, arg |-> Canonical(r.w.heap[1]),
              exc |-> r.exc, val |-> IF r.exc = "" THEN Plain(r.val) ELSE NoneV,
              state |-> state', calls |-> r.w.calls, evals |-> r.w.evals]
  /\ UNCHANGED <<pin, pout>>

DoEvalMacro(c) ==
  Called("eval_macro", c, call_eval_macro(c.name, c.args, TheStory, NewWorld(state), 1, c.mf))

DoEvalExpr(expr) ==
  Called("eval_expr", [expr |-> expr], call_eval_expr(expr, TheStory, NewWorld(state), 1, TheFinder))

DoEvalText(text_, context_) ==
  Called("eval_text", [text |-> text_, context |-> context_],
         call_eval_text(text_, TheStory, NewWorld(state), 1, context_, TheFinder))

DoEvalTree(tree) ==
  Called("eval_tree", [tree |-> tree], call_eval_tree(tree, TheStory, NewWorld(state), 1, TheFinder))

\* Story.visit(state, node, prev), with the node the state is at as prev
DoVisit(node) ==
  Called("visit", [node |-> node],
         visit(TheStory, NewWorld(state), 1, node,
               IF <<"_", "n", "o", "d", "e">> \in DOMAIN state THEN state[<<"_", "n", "o", "d", "e">>] ELSE NoneV))

\* Story.display_node(node, state)
DoDisplayNode(node) ==
  Called("display_node", [node |-> node],
         display_node(TheStory, TheFinder, NewWorld(state), 1, node, NoneV))

Next ==
  \/ \E c \in MacroCalls : DoEvalMacro(c)
  \/ \E e \in Exprs : DoEvalExpr(e)
  \/ \E t \in Texts, c \in Contexts : DoEvalText(t, c)
  \/ \E t \in Trees : DoEvalTree(t)
  \/ \E n \in NodeNames : DoVisit(n)
  \/ \E n \in NodeNames : DoDisplayNode(n)

Spec == Init /\ [][Next]_vars

(***************************************************************************)
(* The parser on its own: parse_units on a list of units and parse_expr on *)
(* the text of an expression. The input is drawn at the start (pin) and    *)
(* the call leaves what it returned, or the exception it raised, in pout.  *)
(***************************************************************************)
\* the longest list of units drawn freely, and the largest number of binary
\* operators of a chain "value (operator value)*"
MaxLen == 3
MaxOps == 2

\* the units the lists are made of
Tokens ==
  {Unit("int", 1), Unit("word", <<"x">>), Unit("op", "+"), Unit("op", "-"), Unit("op", "*"),
   Unit("op", "not"), Unit("group", "open"), Unit("group", "close"),
   Unit("index", "open"), Unit("index", "close")}
ValueUnits == {Unit("int", 1), Unit("int", 2), Unit("word", <<"x">>)}
BinaryOps == {"+", "*", "**", "="}

\* the lists "value (operator value)*" with k binary operators
RECURSIVE ChainsOf(_)
ChainsOf(k) ==
  IF k = 0 THEN {<<v>> : v \in ValueUnits}
  ELSE {c \o <<Unit("op", b), v>> : c \in ChainsOf(k - 1), b \in BinaryOps, v \in ValueUnits}
Chains == UNION {ChainsOf(k) : k \in 0..MaxOps}

\* a unary operator before the first value of "x b y", and two unary
\* operators before a value
UnaryForms ==
  {<<Unit("op", u), x, Unit("op", b), y>> :
     u \in UnaryOps, x \in {Unit("int", 1)}, b \in BinaryOps, y \in {Unit("int", 2)}}
  \cup {<<Unit("op", u1), Unit("op", u2), Unit("int", 1)>> : u1 \in UnaryOps, u2 \in UnaryOps}

\* "target [ tokens ]" with one value, a chain or a nested index between
\* the brackets
IndexForms ==
  {<<Unit("word", <<"x">>), Unit("index", "open")>> \o c \o <<Unit("index", "close")>> :
     c \in ChainsOf(0) \cup ChainsOf(1)
            \cup {<<Unit("word", <<"x">>), Unit("index", "open"), Unit("int", 1), Unit("index", "close")>>}}

UnitLists == UNION {[1..n -> Tokens] : n \in 0..MaxLen} \cup Chains \cup UnaryForms \cup IndexForms

\* the texts handed to parse_expr
ParseExprs ==
  {<<"1", " ", "*", " ", "2", " ", "+", " ", "3">>, <<"1", " ", "+", " ", "2", " ", "*", " ", "3">>, <<"1", " ", "+", " ", "2", " ", "*", " ", "3", " ", "=", " ", "4">>, <<"-", " ", "1", " ", "+", " ", "2">>, <<"n", "o", "t", " ", "n", "o", "t", " ", "x">>, <<>>,
   <<"1", " ", "2">>, <<"*", " ", "1">>, <<"1", " ", "+">>, <<"(", "1">>, <<"1", " ", "[", " ", "2">>, <<"(", "1", " ", "+", " ", "2", ")", " ", "*", " ", "3">>, <<"x">>, <<"(", "x", ")">>, <<"7">>}

ParseInputs ==
  {[kind |-> "units", units |-> u, ungrouped |-> g] : u \in UnitLists, g \in BOOLEAN}
  \cup {[kind |-> "expr", expr |-> e] : e \in ParseExprs}

InitParse ==
  /\ state = <<>>
  /\ last = [op |-> "none"]
  /\ steps = 0
  /\ pin \in ParseInputs
  /\ pout = NoParse

\* parse_units(units, ungrouped)
DoParseUnits ==
  /\ pin.kind = "units"
  /\ pout = NoParse
  /\ pout' = [kind |-> "result", r |-> parse_units(pin.units, pin.ungrouped)]
  /\ UNCHANGED <<state, last, steps, pin>>

\* parse_expr(expr)
DoParseExpr ==
  /\ pin.kind = "expr"
  /\ pout = NoParse
  /\ pout' = [kind |-> "result", r |-> parse_expr(pin.expr)]
  /\ UNCHANGED <<state, last, steps, pin>>

NextParse == DoParseUnits \/ DoParseExpr

SpecParse == InitParse /\ [][NextParse]_vars

(***************************************************************************)
(* Properties of the evaluator and of the story layer, stated on the       *)
(* record of the last call of a session (Spec)                             *)
(***************************************************************************)
\* whether a value is the text of an error: "<<Error: ...>>"
IsErrorText(v) ==
  /\ v.t = "str"
  /\ Len(PV(v)) >= 11
  /\ SubSeq(PV(v), 1, 9) = <<"<", "<", "E", "r", "r", "o", "r", ":", " ">>
  /\ SubSeq(PV(v), Len(PV(v)) - 1, Len(PV(v))) = <<">", ">">>

\* the number of entries of the _errors_ list of a state
ErrorCount(d) == IF ERRORS \in DOMAIN d THEN Len(PV(d[ERRORS])) ELSE 0

\* the call added exactly one error, and its value is the text of an error
OneError == last.exc = "" /\ IsErrorText(last.val)
              /\ ErrorCount(last.state) = ErrorCount(last.before) + 1

\* C1: when eval_text returns, every node-local variable (a name that begins
\* with "_" and does not end with "_") has in the returned state the value
\* it had in the state before the call, and is absent if it was absent.
C1_NodeLocalScoping ==
  (last.op = "eval_text" /\ last.exc = "") =>
    \A v \in DOMAIN last.state \cup DOMAIN last.before :
      IsLocalName(v) =>
        /\ v \in DOMAIN last.before <=> v \in DOMAIN last.state
        /\ v \in DOMAIN last.before => Plain(last.state[v]) = Plain(last.before[v])

\* C2: after every call of eval_text, eval_expr or eval_macro, whether it
\* returns or raises, the dictionary that the caller passed in is equal to
\* what it was before the call.
C2_CallerStateNotMutated ==
  last.op \in {"eval_text", "eval_expr", "eval_macro"} => last.arg = last.before

\* a call of the builtin add that returned a state with the new value of x,
\* while the caller's dictionary is as before
C2_Witness ==
  /\ last.op = "eval_macro"
  /\ last.input.name = <<"a", "d", "d">>
  /\ last.exc = ""
  /\ <<"x">> \in DOMAIN last.before
  /\ last.state[<<"x">>] # last.before[<<"x">>]
  /\ last.arg = last.before

\* C3: when a macro call inside a text fails, eval_text does not raise, the
\* output holds the text of an error in the place of the call, one entry is
\* added to _errors_ for the call, and the later call (add~ x ~ 1) is still
\* evaluated.
C3_ErrorDegradation ==
  (last.op = "eval_text" /\ last.input.text = <<"(", "n", "o", "n", "e", "x", "i", "s", "t", "e", "n", "t", "~", ")", " ", "(", "a", "d", "d", "~", " ", "x", " ", "~", " ", "1", ")">>) =>
    /\ last.exc = ""
    /\ last.val.t = "str"
    /\ IsSubstring(<<"<", "<", "E", "r", "r", "o", "r", ":", " ">>, PV(last.val))
    /\ ErrorCount(last.state)
         = ErrorCount(last.before) + (IF <<"x">> \in DOMAIN last.before THEN 1 ELSE 2)
    /\ <<"x">> \in DOMAIN last.before =>
         /\ <<"x">> \in DOMAIN last.state
         /\ Ok(Plain(last.state[<<"x">>])) = PyAdd(Plain(last.before[<<"x">>]), IntV(1))

\* what a call of eval_macro evaluated first: the text of a node
FirstEvaluated(content) == last.evals # <<>> /\ last.evals[1] = <<"text", content>>

\* the returned state holds the raw arguments as _context, unless the state
\* before the call had a _context, which is restored
ContextIsArgs ==
  last.exc = "" =>
    /\ CONTEXT \in DOMAIN last.state
    /\ Plain(last.state[CONTEXT]) =
         IF CONTEXT \in DOMAIN last.before THEN Plain(last.before[CONTEXT])
         ELSE ArgsValue(last.input.args)

\* C4: eval_macro resolves a name in a fixed order. (1) A node of the story:
\* its content is evaluated with the raw arguments as _context, also when a
\* builtin has the same name. (2) Else a name with exactly one ".": an error
\* without a call of the module finder if the module is not included by the
\* story (or if there is no module finder); else the module finder is called,
\* and it is an error if it finds no module or if the module has no such
\* node; else the content of the module's node is evaluated. (3) Else a
\* builtin: it gets the raw arguments, so what is evaluated first is one of
\* them. (4) Else an error. Every error is one entry of _errors_.
C4_MacroResolutionOrder ==
  last.op = "eval_macro" =>
    LET name == last.input.name
        dot == IndexOf(name, ".", 0)
        module_name == Slice(name, 0, dot)
        inner_name == SliceFrom(name, dot + 1)
        mf == last.input.mf
    IN
    IF name \in DOMAIN TheStory.nodes THEN
      /\ FirstEvaluated(TheStory.nodes[name].content)
      /\ last.calls = <<>>
      /\ ContextIsArgs
    ELSE IF Count(name, ".") = 1 THEN
      IF ~\E k \in 1..Len(TheStory.modules) : TheStory.modules[k] = module_name
      THEN OneError /\ last.calls = <<>> /\ last.evals = <<>>
      ELSE IF ~mf.present
      THEN OneError /\ last.calls = <<>> /\ last.evals = <<>>
      ELSE IF module_name \notin DOMAIN mf.mods
      THEN OneError /\ last.calls = <<module_name>> /\ last.evals = <<>>
      ELSE IF inner_name \notin DOMAIN mf.mods[module_name].nodes
      THEN OneError /\ last.calls = <<module_name>> /\ last.evals = <<>>
      ELSE /\ last.calls = <<module_name>>
           /\ FirstEvaluated(mf.mods[module_name].nodes[inner_name].content)
           /\ ContextIsArgs
    ELSE IF name \in BUILTINS THEN
      /\ last.exc = ""
      /\ last.calls = <<>>
      /\ last.evals # <<>> =>
           \E k \in 1..Len(last.input.args) : last.evals[1][2] = last.input.args[k]
    ELSE OneError /\ last.calls = <<>> /\ last.evals = <<>>

\* the name "set" is a node of the story and a builtin: the call returned
\* the text of the node
C4_Witness ==
  /\ last.op = "eval_macro"
  /\ last.input.name = <<"s", "e", "t">>
  /\ last.exc = ""
  /\ last.val = StrV(<<"s", "h", "a", "d", "o", "w">>)
  /\ Plain(last.state[CONTEXT]) = ArgsValue(<<<<"y">>, <<"1">>>>)

\* a value that is a Boolean: True or False, or the pair ("boolean", b)
IsBoolean(v) ==
  \/ v.t = "bool"
  \/ v.t = "tuple" /\ Len(PV(v)) = 2 /\ PV(v)[1] = StrV(<<"b", "o", "o", "l", "e", "a", "n">>) /\ PV(v)[2].t = "bool"

\* C5: evaluating "L and R" or "L or R" raises no error and gives a Boolean;
\* with L false under "and", or L true under "or", R is not evaluated: the
\* state is as before and no error entry is added. "False and (1/0)" raises
\* nothing.
C5_ShortCircuit ==
  /\ (last.op = "eval_tree" /\ last.input.tree.op \in {"and", "or"}) =>
       /\ last.exc = ""
       /\ IsBoolean(last.val)
       /\ last.input.tree.args[1].value = BoolV(last.input.tree.op = "or") =>
            last.state = last.before
  /\ (last.op = "eval_expr" /\ last.input.expr = <<"F", "a", "l", "s", "e", " ", "a", "n", "d", " ", "(", "1", "/", "0", ")">>) =>
       last.exc = "" /\ IsBoolean(last.val)

\* the conditions and results of the arguments of if and select, and the
\* entries of the log for them
CondOf(args, k) == args[2 * k - 1]
ResultOf(args, k) == args[2 * k]
CondEntries(args, j) == [k \in 1..j |-> <<"expr", CondOf(args, k)>>]
\* a condition is true when eval_expr, called on the state of the call,
\* returns a value that bool() takes as true
IsTrueCond(c) ==
  LET True_(r) == r.exc = "" /\ Truthy(r.val)
  IN True_(call_eval_expr(c, TheStory, NewWorld(last.before), 1, last.input.mf))
\* the arguments of the example in eval_macro's docstring
DocTestArgs ==
  <<<<"1", " ", "-", " ", "1">>, <<Backquote, "n", "o", "p", "e", Backquote>>, <<"2", " ", "*", " ", "0">>, <<"n", "o", "p", "e">>, <<Backquote, "a", Backquote, " ", "o", "r", " ", "F", "a", "l", "s", "e">>, <<Backquote, "y", "e", "s", Backquote>>, <<"e", "l", "s", "e">>, <<"0">>>>

\* C6: if and select pair their arguments as (condition, result) with an
\* optional else. The conditions are evaluated from the left up to the first
\* true one, then its result and nothing else (an expression for if, a text
\* for select); when no condition is true the else is evaluated, and
\* without an else the value is None. The example in eval_macro's docstring
\* gives ("yes", {}): 1 - 1 and 2 * 0 are false, `a` or False is true.
C6_CondEvaluationOrder ==
  (last.op = "eval_macro" /\ last.input.name \in {<<"i", "f">>, <<"s", "e", "l", "e", "c", "t">>}
     /\ last.input.name \notin DOMAIN TheStory.nodes) =>
    LET args == last.input.args
        pairs == Len(args) \div 2
        kind == IF last.input.name = <<"i", "f">> THEN "expr" ELSE "text"
        trueConds == {k \in 1..pairs : IsTrueCond(CondOf(args, k))}
    IN
    /\ last.exc = ""
    /\ IF trueConds # {}
       THEN LET j == CHOOSE k \in trueConds : \A i \in trueConds : k <= i IN
            last.evals = Append(CondEntries(args, j), <<kind, ResultOf(args, j)>>)
       ELSE IF Len(args) % 2 = 1
       THEN last.evals = Append(CondEntries(args, pairs), <<kind, args[Len(args)]>>)
       ELSE last.evals = CondEntries(args, pairs) /\ last.val = NoneV
    /\ (last.input.name = <<"i", "f">> /\ args = DocTestArgs /\ last.before = <<>>) =>
         last.val = StrV(<<"y", "e", "s">>) /\ last.state = <<>>

\* C7: after Story.visit recorded the visit of a node, display_node of the
\* node gives the argument of (once~ ...) on the first visit and that of
\* (again~ ...) on a later visit, and the empty string for the other; so do
\* the macros once and again called on a state that visit has set up.
ONCE == <<"_", "o", "n", "c", "e">>
C7_OnceAgainFollowVisit ==
  /\ (last.op = "display_node" /\ last.input.node = <<"s", "t", "a", "r", "t">>
        /\ <<"_", "n", "o", "d", "e">> \in DOMAIN last.before /\ ONCE \in DOMAIN last.before
        /\ last.before[<<"_", "n", "o", "d", "e">>] = StrV(<<"s", "t", "a", "r", "t">>)) =>
       /\ last.exc = ""
       /\ last.val = StrV(<<"h", "i", " ">> \o (IF Truthy(last.before[ONCE]) THEN <<"a">> ELSE <<"b">>))
       /\ ErrorCount(last.state) = ErrorCount(last.before)
  /\ (last.op = "eval_macro" /\ last.input.name \in {<<"o", "n", "c", "e">>, <<"a", "g", "a", "i", "n">>}
        /\ ONCE \in DOMAIN last.before) =>
       /\ last.exc = ""
       /\ last.val = StrV(IF (last.input.name = <<"o", "n", "c", "e">>) = Truthy(last.before[ONCE])
                          THEN last.input.args[1] ELSE <<>>)
       /\ ErrorCount(last.state) = ErrorCount(last.before)

(***************************************************************************)
(* Properties of the parser, stated on the input and the result of a call  *)
(* (SpecParse)                                                             *)
(***************************************************************************)
IsOpNode(t) == t.op \notin {"value", "opval"}

\* the nodes below a node of a parse tree
RECURSIVE Descendants(_)
Descendants(t) ==
  IF ~IsOpNode(t) THEN {}
  ELSE UNION {{t.args[k]} \cup Descendants(t.args[k]) : k \in 1..Len(t.args)}

\* no operator node has below it an ungrouped operator node of lower precedence
PrecedenceOrdered(t) ==
  \A n \in {t} \cup Descendants(t) :
    IsOpNode(n) =>
      \A d \in Descendants(n) :
        (IsOpNode(d) /\ ~d.grouped) => OPERATOR_PRECEDENCE[d.op] >= OPERATOR_PRECEDENCE[n.op]

\* C8: in the tree that parse_units returns for values and binary operators,
\* no operator node has an ungrouped descendant operator node of lower
\* precedence: "1 * 2 + 3" parses to (1 * 2) + 3 and "1 + 2 * 3" to
\* 1 + (2 * 3).
C8_PrecedenceInvariant ==
  pout # NoParse =>
    /\ (pin.kind = "units" /\ pin.units \in Chains /\ pout.r.exc = "") =>
         PrecedenceOrdered(pout.r.val)
    /\ (pin.kind = "expr" /\ pin.expr = <<"1", " ", "*", " ", "2", " ", "+", " ", "3">>) =>
         /\ pout.r.exc = ""
         /\ pout.r.val.op = "+" /\ pout.r.val.args[1].op = "*"
         /\ PrecedenceOrdered(pout.r.val)
    /\ (pin.kind = "expr" /\ pin.expr = <<"1", " ", "+", " ", "2", " ", "*", " ", "3">>) =>
         /\ pout.r.exc = ""
         /\ pout.r.val.op = "+" /\ pout.r.val.args[2].op = "*"
         /\ PrecedenceOrdered(pout.r.val)

\* C9: a unary operator applies to the value that follows it: "u x b y"
\* parses to b(u(x), y), and "u1 u2 x" to u1(u2(x)).
C9_UnaryPrefix ==
  (pout # NoParse /\ pin.kind = "units" /\ pin.units \in UnaryForms) =>
    LET u == pin.units
        t == pout.r.val
    IN
    /\ pout.r.exc = ""
    /\ IF Len(u) = 4
       THEN /\ t.op = UV(u[3]) /\ Len(t.args) = 2
            /\ t.args[1].op = UV(u[1]) /\ Len(t.args[1].args) = 1
            /\ t.args[1].args[1].op = "value"
            /\ t.args[2].op = "value"
       ELSE /\ t.op = UV(u[1]) /\ Len(t.args) = 1
            /\ t.args[1].op = UV(u[2]) /\ Len(t.args[1].args) = 1
            /\ t.args[1].args[1].op = "value"

\* the malformed lists of units: empty, two values next to each other, a
\* binary operator that is not unary at the start, an operator at the end,
\* more group or index openers than closers
IsValueUnit(u) == u.ut \in {"int", "float", "string", "word", "call"}
Openers(units, ut) == {k \in 1..Len(units) : units[k] = Unit(ut, "open")}
Closers(units, ut) == {k \in 1..Len(units) : units[k] = Unit(ut, "close")}
Malformed(units) ==
  \/ units = <<>>
  \/ \E k \in 1..(Len(units) - 1) : IsValueUnit(units[k]) /\ IsValueUnit(units[k + 1])
  \/ units # <<>> /\ units[1].ut = "op" /\ UV(units[1]) \notin UnaryOps
  \/ units # <<>> /\ units[Len(units)].ut = "op"
  \/ \E ut \in {"group", "index"} :
       Cardinality(Openers(units, ut)) > Cardinality(Closers(units, ut))

\* C10: parse_units raises ParseError for every malformed list of units: it
\* returns no tree and raises no other exception.
C10_MalformedRejected ==
  (pout # NoParse /\ pin.kind = "units" /\ Malformed(pin.units)) =>
    pout.r.exc = "ParseError"

(***************************************************************************)
(* The operators of ops.py on their own: resolve_op on an operator and the *)
(* types of its operands, op_result, the comparisons and reduce_lst on     *)
(* (type, value) pairs. The call is drawn at the start (pin) and leaves    *)
(* what it returned, or the exception it raised, in pout.                  *)
(***************************************************************************)
\* the largest number of operand types handed to resolve_op, and the longest
\* list handed to reduce_lst
MaxOperands == 2
MaxList == 2

TypeNames == {StrV(<<"i", "n", "t">>), StrV(<<"f", "l", "o", "a", "t">>), StrV(<<"s", "t", "r", "i", "n", "g">>), StrV(<<"l", "i", "s", "t">>), StrV(<<"b", "o", "o", "l", "e", "a", "n">>)}
Symbols == {"+", "-", "<", "|", "@@"}
Typed(typ, v) == TupleV(<<StrV(typ), v>>)
Operands ==
  {Typed(<<"i", "n", "t">>, IntV(1)), Typed(<<"i", "n", "t">>, IntV(2)), Typed(<<"f", "l", "o", "a", "t">>, FloatV(15, -1)),
   Typed(<<"s", "t", "r", "i", "n", "g">>, StrV(<<"a">>)), Typed(<<"s", "t", "r", "i", "n", "g">>, StrV(<<"b">>)),
   Typed(<<"l", "i", "s", "t">>, ListV(<<IntV(1)>>)), Typed(<<"d", "i", "c", "t">>, DictV(<<>>)),
   Typed(<<"b", "o", "o", "l", "e", "a", "n">>, BoolV(TRUE)), Typed(<<"n", "o", "n", "e">>, NoneV)}
Seeds ==
  {Typed(<<"i", "n", "t">>, IntV(0)), Typed(<<"i", "n", "t">>, IntV(5)), Typed(<<"f", "l", "o", "a", "t">>, FloatV(25, -1)),
   Typed(<<"s", "t", "r", "i", "n", "g">>, StrV(<<"s">>)), Typed(<<"l", "i", "s", "t">>, ListV(<<IntV(1)>>)),
   Typed(<<"d", "i", "c", "t">>, DictV(<<<<StrV(<<"k">>), IntV(1)>>>>)),
   Typed(<<"b", "o", "o", "l", "e", "a", "n">>, BoolV(TRUE)), Typed(<<"n", "o", "n", "e">>, NoneV)}
Elements == {Typed(<<"i", "n", "t">>, IntV(1)), Typed(<<"i", "n", "t">>, IntV(2)), Typed(<<"i", "n", "t">>, IntV(3))}
Lists == UNION {[1..n -> Elements] : n \in 0..MaxList}

OpsInputs ==
  {[kind |-> "resolve_op", op |-> op, types |-> ts] :
     op \in Symbols, ts \in UNION {[1..n -> TypeNames] : n \in 0..MaxOperands}}
  \cup {[kind |-> "op_result", op |-> op, args |-> <<a, b>>] :
          op \in Symbols, a \in Operands \cup {IntV(1)}, b \in Operands}
  \cup {[kind |-> "compare", f |-> f, lhs |-> a, rhs |-> b] :
          f \in {"less", "greater", "leq", "geq"}, a \in Operands, b \in Operands}
  \cup {[kind |-> "reduce_lst", lst |-> l, op |-> op, seed |-> s] :
          l \in Lists, op \in {"+", "*", "@@"}, s \in Seeds}

InitOps ==
  /\ state = <<>>
  /\ last = [op |-> "none"]
  /\ steps = 0
  /\ pin \in OpsInputs
  /\ pout = NoParse

\* resolve_op(op, *types)
DoResolveOp ==
  /\ pin.kind = "resolve_op"
  /\ pout = NoParse
  /\ pout' = [kind |-> "result", r |-> resolve_op(pin.op, pin.types)]
  /\ UNCHANGED <<state, last, steps, pin>>

\* op_result(op, state, *args)
DoOpResult ==
  /\ pin.kind = "op_result"
  /\ pout = NoParse
  /\ pout' = [kind |-> "result", r |-> op_result(pin.op, NewWorld(state), 1, pin.args)]
  /\ UNCHANGED <<state, last, steps, pin>>

\* less, greater, leq or geq (state, lhs, rhs)
DoCompare ==
  /\ pin.kind = "compare"
  /\ pout = NoParse
  /\ pout' = [kind |-> "result",
              r |-> Ok(CASE pin.f = "less" -> less(state, pin.lhs, pin.rhs)
                         [] pin.f = "greater" -> greater(state, pin.lhs, pin.rhs)
                         [] pin.f = "leq" -> leq(state, pin.lhs, pin.rhs)
                         [] pin.f = "geq" -> geq(state, pin.lhs, pin.rhs))]
  /\ UNCHANGED <<state, last, steps, pin>>

\* reduce_lst(state, ("list", lst), ("op", op), seed)
DoReduce ==
  /\ pin.kind = "reduce_lst"
  /\ pout = NoParse
  /\ pout' = [kind |-> "result",
              r |-> reduce_lst(NewWorld(state), 1, Typed(<<"l", "i", "s", "t">>, ListV(pin.lst)),
                               Typed(<<"o", "p">>, OpV(pin.op)), pin.seed)]
  /\ UNCHANGED <<state, last, steps, pin>>

NextOps == DoResolveOp \/ DoOpResult \/ DoCompare \/ DoReduce

SpecOps == InitOps /\ [][NextOps]_vars

(***************************************************************************)
(* Properties of the operators (SpecOps)                                   *)
(***************************************************************************)
\* whether a candidate matches the operand types: as many patterns as
\* operands, each the wildcard, a tuple that holds the type, or the type
Matches(c, types) ==
  /\ Len(c.pats) = Len(types)
  /\ \A i \in 1..Len(types) :
       \/ c.pats[i] = StrV(<<"*">>)
       \/ c.pats[i].t = "tuple" /\ \E j \in 1..Len(PV(c.pats[i])) : PV(c.pats[i])[j] = types[i]
       \/ c.pats[i] = types[i]
Matching(op, types) == {k \in 1..Len(Candidates(op)) : Matches(Candidates(op)[k], types)}

\* C11: resolve_op returns the function of the first candidate registered
\* for the operator that matches the operand types (string + string is
\* plus_str, not the fallback plus_str_default), and raises ValueError when
\* no candidate matches.
C11_FirstMatchDispatch ==
  (pout # NoParse /\ pin.kind = "resolve_op") =>
    IF Matching(pin.op, pin.types) = {} THEN pout.r.exc = "ValueError"
    ELSE LET k == CHOOSE i \in Matching(pin.op, pin.types) :
                    \A j \in Matching(pin.op, pin.types) : i <= j
         IN pout.r = Ok(Candidates(pin.op)[k].f)

\* the Boolean false: False, or the pair ("boolean", False)
IsFalse(v) == v \in {BoolV(FALSE), TupleV(<<StrV(<<"b", "o", "o", "l", "e", "a", "n">>), BoolV(FALSE)>>)}

\* C12: a comparison <, >, <= or >= of two operands of different types that
\* are not both numbers, evaluated by eval_tree, raises no error, gives the
\* Boolean false and returns the state unchanged.
C12_PermissiveComparison ==
  (last.op = "eval_tree" /\ last.input.tree \in MixedComparisons) =>
    /\ last.exc = ""
    /\ IsFalse(last.val)
    /\ last.state = last.before

\* the left fold of a list of ("int", n) pairs with + or *, from acc
RECURSIVE FoldInts(_, _, _, _)
FoldInts(op, acc, lst, k) ==
  IF k > Len(lst) THEN acc
  ELSE FoldInts(op, IF op = "+" THEN acc + PV(PV(lst[k])[2]) ELSE acc * PV(PV(lst[k])[2]), lst, k + 1)

\* C13: reduce_lst over a list x1..xn that is not empty, with the operator +
\* or * and an int seed s, gives ((s op x1) op x2) ... op xn: the seed is
\* applied once.
C13_ReduceSeededFold ==
  (pout # NoParse /\ pin.kind = "reduce_lst" /\ pin.lst # <<>> /\ pin.op \in {"+", "*"}
     /\ PV(pin.seed)[1] = StrV(<<"i", "n", "t">>)) =>
    /\ pout.r.exc = ""
    /\ pout.r.val = Typed(<<"i", "n", "t">>, IntV(FoldInts(pin.op, PV(PV(pin.seed)[2]), pin.lst, 1)))

\* C14: reduce_lst over the empty list raises nothing and does not call the
\* operator: it gives 0 for an int or float seed, "" for a string seed, []
\* or {} for a list or dict seed, and None for a seed of another type.
C14_ReduceEmptyList ==
  (pout # NoParse /\ pin.kind = "reduce_lst" /\ pin.lst = <<>>) =>
    LET typ == PV(pin.seed)[1]
        v == Plain(IF pout.r.val.t = "tuple" THEN PV(pout.r.val)[2] ELSE pout.r.val)
    IN
    /\ pout.r.exc = ""
    /\ CASE typ \in {StrV(<<"i", "n", "t">>), StrV(<<"f", "l", "o", "a", "t">>)} -> IsNum(v) /\ NumOf(v) = FloatZero(1)
         [] typ = StrV(<<"s", "t", "r", "i", "n", "g">>) -> v = StrV(<<>>)
         [] typ = StrV(<<"l", "i", "s", "t">>) -> v = ListV(<<>>)
         [] typ = StrV(<<"d", "i", "c", "t">>) -> v = DictV(<<>>)
         [] OTHER -> v = NoneV

(***************************************************************************)
(* Further properties of the evaluator (Spec)                              *)
(***************************************************************************)
MapNames == {<<"@">>, <<"#">>, <<"?">>}

\* C15: the map operator over a list or a dictionary evaluates its body for
\* every element and gives a list of the same length or a dictionary with
\* the same keys; the returned state has "@", "#" and "?" only if the state
\* before had them, with their earlier values; over another type it raises
\* EvalError.
C15_MapBindingsTransient ==
  (last.op = "eval_tree" /\ last.input.tree \in MapTrees) =>
    LET coll == last.input.tree.args[1].value IN
    IF coll.t \in {"list", "dict"} THEN
      /\ last.exc = ""
      /\ last.val.t = coll.t
      /\ Len(PV(last.val)) = Len(PV(coll))
      /\ coll.t = "dict" => \A k \in 1..Len(PV(coll)) : PV(last.val)[k][1] = PV(coll)[k][1]
      /\ \A n \in MapNames :
           /\ n \in DOMAIN last.state <=> n \in DOMAIN last.before
           /\ n \in DOMAIN last.before => Plain(last.state[n]) = Plain(last.before[n])
    ELSE last.exc = "EvalError"

\* C16: eval_text of a text with a macro call that is not closed raises
\* nothing and gives the whole text: what stands before the opener, the
\* opener and what follows it.
C16_UnterminatedCallIsText ==
  (last.op = "eval_text" /\ last.input.text = <<"a", " ", "(", "s", "e", "t", "~", " ", "x">>) =>
    last.exc = "" /\ last.val = StrV(<<"a", " ", "(", "s", "e", "t", "~", " ", "x">>)

\* C17: eval_text returns or stops with ExpansionOverflow; the call of a
\* node whose content calls the node itself ends with ExpansionOverflow.
C17_ExpansionTerminates ==
  /\ last.op = "eval_text" => last.exc \in {"", "ExpansionOverflow"}
  /\ (last.op = "eval_macro" /\ last.input.name = <<"l", "o", "o", "p">>) => last.exc = "ExpansionOverflow"

\* C18: eval_text of a text gives an output, and eval_text of that output
\* gives the same output and adds no entry to _errors_.
C18_ExpansionIdempotent ==
  last.op = "eval_text" =>
    /\ last.exc = ""
    /\ LET Again(r) ==
             /\ r.exc = ""
             /\ r.val = last.val
             /\ ErrorCount(r.w.heap[r.st]) = ErrorCount(last.state)
       IN Again(call_eval_text(PV(last.val), TheStory, NewWorld(last.state), 1,
                               last.input.context, TheFinder))

(***************************************************************************)
(* parse.py: NODE_START, reflow, parse_first_node, render_node             *)
(***************************************************************************)
NodeNameChar == Lower \cup Upper \cup Digits \cup {"_", ".", "-"}
Blank == {" ", "\t"}

\* "^" under re.MULTILINE: the start of the string or just after a newline
LineStart(s, p) == p = 0 \/ At(s, p - 1) = "\n"

\* "$" under re.MULTILINE: the end of the string or just before a newline
LineEnd(s, k) == k = Len(s) \/ At(s, k) = "\n"

\* the largest k in lo..hi where "$" matches, or -1
RECURSIVE LastLineEnd(_, _, _)
LastLineEnd(s, lo, hi) ==
  IF hi < lo THEN -1 ELSE IF LineEnd(s, hi) THEN hi ELSE LastLineEnd(s, lo, hi - 1)

\* NODE_START matched at position p: "^\s*#\s*(name)\s*$".  "#" and the name
\* are not whitespace, so each \s* before them takes its whole run; the last
\* \s* gives back characters until "$" matches.
NODE_START_at(s, p) ==
  LET h == p + RunLen(s, p, StripChars)
      n == h + 1 + RunLen(s, h + 1, StripChars)
      m == n + RunLen(s, n, NodeNameChar)
      e == m + RunLen(s, m, StripChars)
      k == LastLineEnd(s, m, e)
  IN IF LineStart(s, p) /\ h < Len(s) /\ At(s, h) = "#" /\ m > n /\ k >= 0
     THEN [found |-> TRUE, start |-> p, end |-> k, name |-> Slice(s, n, m)]
     ELSE [found |-> FALSE]

\* the smallest k in lo..hi that satisfies P, or -1: where a leftmost match
\* starts
FirstWhere(lo, hi, P(_)) ==
  LET K == {k \in lo..hi : P(k)}
  IN IF K = {} THEN -1 ELSE CHOOSE k \in K : \A j \in K : k <= j

\* NODE_START.search(s, pos): the leftmost match starting at or after pos
NODE_START_search(s, pos) ==
  LET At1(k) == IF k < 0 THEN [found |-> FALSE] ELSE NODE_START_at(s, k)
  IN At1(FirstWhere(pos, Len(s) - 1, LAMBDA k : NODE_START_at(s, k).found))

\* the largest k < hi with s[k] # "\n", or -1
RECURSIVE LastNonNewline(_, _)
LastNonNewline(s, hi) ==
  IF hi <= 0 THEN -1
  ELSE IF At(s, hi - 1) # "\n" THEN hi - 1 ELSE LastNonNewline(s, hi - 1)

\* the smallest k >= p with s[k] # "\n", or -1
RECURSIVE FirstNonNewline(_, _)
FirstNonNewline(s, p) ==
  IF p >= Len(s) THEN -1
  ELSE IF At(s, p) # "\n" THEN p ELSE FirstNonNewline(s, p + 1)

\* re.sub("^\s*([^\n])", r"\1", src): drop the leading whitespace; when the
\* whole string is whitespace, \s* gives back down to its last non-newline
reflow_front(src) ==
  LET q == RunLen(src, 0, StripChars)
      k == LastNonNewline(src, Len(src))
  IN IF q < Len(src) THEN SliceFrom(src, q)
     ELSE IF k >= 0 THEN SliceFrom(src, k) ELSE src

\* re.sub("([^\n])\s*$", r"\1", src): the leftmost non-newline character
\* that only whitespace follows is kept, what follows it is dropped
reflow_back(src) ==
  LET t == Len(src) - Len(RStrip(src))
      p == FirstNonNewline(src, Max2(0, Len(src) - t - 1))
  IN IF p >= 0 THEN Slice(src, 0, p + 1) ELSE src

\* re.sub("([^\n])[ \t]*\n[ \t]*([^\n])", r"\1 \2", src), from position p:
\* matches do not overlap, so the character closing one match cannot open
\* the next
\* where the match that starts at p ends, or -1 when none starts there:
\* the first blanks reach a newline, the second blanks reach a character
\* that is not a newline or, failing that, give their last blank back
reflow_join_end(src, p) ==
  LET q == p + 1 + RunLen(src, p + 1, Blank)
      r == q + 1 + RunLen(src, q + 1, Blank)
  IN IF At(src, p) # "\n" /\ q < Len(src) /\ At(src, q) = "\n"
     THEN IF r < Len(src) /\ At(src, r) # "\n" THEN r + 1
          ELSE IF r > q + 1 THEN r ELSE -1
     ELSE -1

RECURSIVE reflow_join(_, _)
reflow_join(src, p) ==
  LET Sub(k) ==
        IF k < 0 THEN SliceFrom(src, p)
        ELSE Slice(src, p, k) \o <<At(src, k), " ", At(src, reflow_join_end(src, k) - 1)>>
               \o reflow_join(src, reflow_join_end(src, k))
  IN Sub(FirstWhere(p, Len(src) - 1, LAMBDA k : reflow_join_end(src, k) >= 0))

\* re.sub("\n\s*", "\n", src), from position p
RECURSIVE reflow_squeeze(_, _)
reflow_squeeze(src, p) ==
  LET Sub(k) ==
        IF k < 0 THEN SliceFrom(src, p)
        ELSE Slice(src, p, k) \o <<"\n">>
               \o reflow_squeeze(src, k + 1 + RunLen(src, k + 1, StripChars))
  IN Sub(FirstWhere(p, Len(src) - 1, LAMBDA k : At(src, k) = "\n"))

\* reflow(src)
reflow(src) ==
  reflow_squeeze(reflow_join(reflow_back(reflow_front(src)), 0), 0)

\* the while loop of parse_first_node that collects link_extents, with i the
\* value tested by the loop condition; the extents come out last-to-first
RECURSIVE link_scan(_, _, _)
link_scan(content, i, link_extents) ==
  LET Found(k, close) ==
        IF close.exc = "UnmatchedError" THEN link_scan(content, k + 1, link_extents)
        ELSE IF close.exc # "" THEN Raise(close.exc)
        ELSE link_scan(content, close.val, <<<<k + 2, close.val>>>> \o link_extents)
      Scan(k) ==
        IF k < 0 THEN Ok(link_extents)
        ELSE Found(k, matching_brace(content, k + 1, "[", "]"))
  IN Scan(FirstWhere(i, Len(content) - 2,
                     LAMBDA k : Slice(content, k, k + 2) = <<"[", "[">>))

\* successors[display] = value on a dict kept in insertion order
RECURSIVE OrderedSet(_, _, _)
OrderedSet(d, k, v) ==
  IF d = <<>> THEN <<<<k, v>>>>
  ELSE IF Head(d)[1] = k THEN <<<<k, v>>>> \o Tail(d)
  ELSE <<Head(d)>> \o OrderedSet(Tail(d), k, v)

\* the body of the "for start, end in link_extents" loop once display,
\* display_end and end are known: destination, transition, the revised
\* content and the successors entry
link_entry(content, successors, start, end, contents, display, display_end) ==
  LET bar == IndexOf(contents, "|", display_end + 1)
      dest_end == IF display_end < Len(contents) /\ bar >= 0 THEN bar ELSE Len(contents)
      destination ==
        IF display_end < Len(contents)
        THEN IF bar >= 0
             THEN IF Strip(Slice(contents, display_end + 1, dest_end)) = <<>>
                  THEN display
                  ELSE Strip(Slice(contents, display_end + 1, dest_end))
             ELSE Strip(SliceFrom(contents, display_end + 1))
        ELSE display
      transition == Strip(SliceFrom(contents, dest_end + 1))
  IN [content |-> Slice(content, 0, start - 2) \o display \o SliceFrom(content, end + 2),
      successors |->
        OrderedSet(successors, display,
                   IF transition # <<>>
                   THEN ListV(<<StrV(destination), StrV(transition)>>)
                   ELSE StrV(destination))]

\* one pass of the "for start, end in link_extents" loop.  A quoted display
\* takes its end from utils.string_literal, which also replaces the loop's
\* end, the index later used to cut the link out of the content.
parse_link(content, successors, start, end) ==
  LET DisplayEnd(contents, bar) == IF bar >= 0 THEN bar ELSE Len(contents)
      Quoted(contents, sl) ==
        IF sl.exc # "" THEN Raise(sl.exc)
        ELSE Ok(link_entry(content, successors, start, sl.val[1], contents,
                           sl.val[2] \o Slice(contents, sl.val[1],
                                              DisplayEnd(contents, IndexOf(contents, "|", sl.val[1]))),
                           DisplayEnd(contents, IndexOf(contents, "|", sl.val[1]))))
      Link(contents) ==
        IF contents = <<>> THEN Raise("IndexError")
        ELSE IF Head(contents) = "\"" THEN Quoted(contents, string_literal(contents, 0, "\""))
        ELSE Ok(link_entry(content, successors, start, end, contents,
                           Slice(contents, 0, DisplayEnd(contents, IndexOf(contents, "|", 0))),
                           DisplayEnd(contents, IndexOf(contents, "|", 0))))
  IN Link(Strip(Slice(content, start, end)))

\* the "for start, end in link_extents" loop
RECURSIVE parse_links(_, _, _)
parse_links(content, successors, link_extents) ==
  LET Parsed(r) ==
        IF r.exc # "" THEN r
        ELSE parse_links(r.val.content, r.val.successors, Tail(link_extents))
  IN IF link_extents = <<>> THEN Ok([content |-> content, successors |-> successors])
     ELSE Parsed(parse_link(content, successors, Head(link_extents)[1],
                            Head(link_extents)[2]))

\* StoryNode._unpack_(obj): StoryNode(obj["name"], obj["content"],
\* obj["successors"] if "successors" in obj else {})
StoryNode_unpack(obj) ==
  [name |-> obj.name, content |-> obj.content,
   successors |-> IF "successors" \in DOMAIN obj THEN obj.successors ELSE <<>>]

\* packable.unpack(obj, cls) hands the simple object to the class
unpack(obj) == StoryNode_unpack(obj)

\* parse_first_node(src): (node or None, leftovers)
parse_first_node(src) ==
  LET Node(s, first, node_end, links) ==
        IF links.exc # "" THEN links
        ELSE Ok(<<unpack([name |-> first.name, content |-> links.val.content,
                          successors |-> links.val.successors]),
                  SliceFrom(s, node_end)>>)
      Links(s, first, node_end, content, link_extents) ==
        IF link_extents.exc # "" THEN link_extents
        ELSE Node(s, first, node_end, parse_links(content, <<>>, link_extents.val))
      Content(s, first, node_end, content) ==
        Links(s, first, node_end, content, link_scan(content, 0, <<>>))
      Second(s, first, second) ==
        Content(s, first, IF second.found THEN second.start ELSE Len(s),
                reflow(Slice(s, first.end, IF second.found THEN second.start ELSE Len(s))))
      First(s, first) ==
        IF ~first.found \/ first.start # 0 THEN Ok(<<NoneV, s>>)
        ELSE Second(s, first, NODE_START_search(s, first.end))
      Stripped(s) == First(s, NODE_START_search(s, 0))
  IN Stripped(Strip(src))

\* re.sub(r"\b{display}\b", lambda _: link, content), from position i.  An
\* empty display matches the empty string at every word boundary.
RECURSIVE sub_link(_, _, _, _)
sub_link(content, display, link, i) ==
  LET Sub(k) ==
        IF k < 0 THEN SliceFrom(content, i)
        ELSE Slice(content, i, k) \o link
               \o (IF display # <<>> THEN sub_link(content, display, link, k + Len(display))
                   ELSE IF k < Len(content)
                     THEN <<At(content, k)>> \o sub_link(content, display, link, k + 1)
                   ELSE <<>>)
  IN Sub(FirstWhere(i, Len(content) - Len(display),
                    LAMBDA k : /\ Slice(content, k, k + Len(display)) = display
                               /\ IsBoundary(content, k)
                               /\ IsBoundary(content, k + Len(display))))

\* the link text render_node writes for one successor
link_text(display, value) ==
  LET destination == IF value.t = "str" THEN value.s ELSE value.l[1].s
      inner == IF value.t = "str"
               THEN IF destination = display THEN display
                    ELSE display \o <<"|">> \o destination
               ELSE IF destination = display
                    THEN display \o <<"|", "|">> \o value.l[2].s
                    ELSE display \o <<"|">> \o destination \o <<"|">> \o value.l[2].s
  IN <<"[", "[">> \o inner \o <<"]", "]">>

\* the "for display in node.successors" loop of render_node
RECURSIVE render_links(_, _)
render_links(content, successors) ==
  IF successors = <<>> THEN content
  ELSE render_links(
         sub_link(content, Head(successors)[1],
                  link_text(Head(successors)[1], Head(successors)[2]), 0),
         Tail(successors))

\* render_node(node)
render_node(node) ==
  <<"#", " ">> \o node.name \o <<"\n", "\n">>
    \o render_links(node.content, node.successors) \o <<"\n">>

\* StoryNode.__eq__(self, other): dicts compare without regard to order
StoryNode_eq(a, b) ==
  /\ a.name = b.name
  /\ a.content = b.content
  /\ {a.successors[i] : i \in DOMAIN a.successors}
       = {b.successors[i] : i \in DOMAIN b.successors}

(***************************************************************************)
(* parse.py: remove_comments, normalize_newlines, parse_metadata,          *)
(* parse_story, render_story                                               *)
(***************************************************************************)
\* src.find(c, i): the position of the first c at or after i, or -1
find(src, c, i) == FirstWhere(i, Len(src) - 1, LAMBDA k : At(src, k) = c)

\* src.replace(old, new), from position i
RECURSIVE str_replace(_, _, _, _)
str_replace(src, old, new, i) ==
  LET Sub(k) ==
        IF k < 0 THEN SliceFrom(src, i)
        ELSE Slice(src, i, k) \o new \o str_replace(src, old, new, k + Len(old))
  IN Sub(FirstWhere(i, Len(src) - Len(old),
                    LAMBDA k : Slice(src, k, k + Len(old)) = old))

\* normalize_newlines(src)
normalize_newlines(src) ==
  str_replace(str_replace(str_replace(src, <<"\n", "\r">>, <<"\n">>, 0),
                          <<"\r", "\n">>, <<"\n">>, 0),
              <<"\r">>, <<"\n">>, 0)

\* COMMENT.sub("", src), from position i: two backquotes and the rest of
\* their line are dropped
RECURSIVE comment_sub(_, _)
comment_sub(src, i) ==
  LET Sub(k) ==
        IF k < 0 THEN SliceFrom(src, i)
        ELSE Slice(src, i, k)
               \o comment_sub(src, IF find(src, "\n", k) >= 0 THEN find(src, "\n", k)
                                   ELSE Len(src))
  IN Sub(FirstWhere(i, Len(src) - 2,
                    LAMBDA k : Slice(src, k, k + 2) = <<Backquote, Backquote>>))

\* remove_comments(src)
remove_comments(src) == comment_sub(src, 0)

\* src.split('\n')
RECURSIVE split_lines(_)
split_lines(src) ==
  IF find(src, "\n", 0) < 0 THEN <<src>>
  ELSE <<Slice(src, 0, find(src, "\n", 0))>>
         \o split_lines(SliceFrom(src, find(src, "\n", 0) + 1))

\* json.loads: objects, arrays, strings, numbers, true, false, null, NaN,
\* Infinity and -Infinity, separated by JSON whitespace.  A scan gives
\* [ok, val, end].
JsonSpace == {" ", "\t", "\n", "\r"}
JsonFail == [ok |-> FALSE]
JsonAt(v, e) == [ok |-> TRUE, val |-> v, end |-> e]
json_skip(s, i) == i + RunLen(s, i, JsonSpace)

\* the code unit that the four characters at position i spell in
\* hexadecimal, or -1
json_hex4(s, i) ==
  IF i + 4 <= Len(s) /\ AllIn(Slice(s, i, i + 4), HexDigits)
  THEN DigitsValue(Slice(s, i, i + 4), 16) ELSE -1

\* json.decoder.scanstring, from position i after the opening quote: a
\* control character is refused, and a \uXXXX escape of a high surrogate
\* that a \uXXXX escape of a low surrogate follows gives one character
RECURSIVE json_string(_, _, _)
json_string(s, i, acc) ==
  IF i >= Len(s) THEN JsonFail
  ELSE IF At(s, i) = "\"" THEN JsonAt(StrV(acc), i + 1)
  ELSE IF At(s, i) = "\\" THEN
    IF i + 1 >= Len(s) THEN JsonFail
    ELSE IF At(s, i + 1) \in {"\"", "\\", "/"}
      THEN json_string(s, i + 2, Append(acc, At(s, i + 1)))
    ELSE IF At(s, i + 1) = "b" THEN json_string(s, i + 2, Append(acc, Chr(8)))
    ELSE IF At(s, i + 1) = "n" THEN json_string(s, i + 2, Append(acc, "\n"))
    ELSE IF At(s, i + 1) = "r" THEN json_string(s, i + 2, Append(acc, "\r"))
    ELSE IF At(s, i + 1) = "t" THEN json_string(s, i + 2, Append(acc, "\t"))
    ELSE IF At(s, i + 1) = "f" THEN json_string(s, i + 2, Append(acc, "\f"))
    ELSE IF At(s, i + 1) = "u" THEN
      LET hi == json_hex4(s, i + 2)
          lo == IF Slice(s, i + 6, i + 8) = <<"\\", "u">> THEN json_hex4(s, i + 8) ELSE -1
      IN IF hi < 0 THEN JsonFail
         ELSE IF hi \in 55296..56319 /\ lo \in 56320..57343
           THEN json_string(s, i + 12,
                            Append(acc, Chr(65536 + (hi - 55296) * 1024 + (lo - 56320))))
         ELSE json_string(s, i + 6, Append(acc, Chr(hi)))
    ELSE JsonFail
  ELSE IF At(s, i) \in {"\n", "\r", "\t", "\f"} \/ At(s, i) \in {CodeName(c) : c \in 0..31}
    THEN JsonFail
  ELSE json_string(s, i + 1, Append(acc, At(s, i)))

\* json.scanner NUMBER_RE at position i:
\* (-?(?:0|[1-9]\d*))(\.\d+)?([eE][-+]?\d+)? ; int() of the text when it has
\* neither a fraction nor an exponent, and float() of it otherwise
json_number(s, i) ==
  LET sign == IF At(s, i) = "-" THEN -1 ELSE 1
      d == IF At(s, i) = "-" THEN i + 1 ELSE i
      n == IF d < Len(s) /\ At(s, d) = "0" THEN 1 ELSE RunLen(s, d, Digits)
      f == IF d + n < Len(s) /\ At(s, d + n) = "." THEN RunLen(s, d + n + 1, Digits) ELSE 0
      p == IF f = 0 THEN d + n ELSE d + n + 1 + f
      signed == p + 1 < Len(s) /\ At(s, p + 1) \in {"+", "-"}
      q == IF signed THEN p + 2 ELSE p + 1
      x == IF p < Len(s) /\ At(s, p) \in {"e", "E"} THEN RunLen(s, q, Digits) ELSE 0
      neg == x # 0 /\ signed /\ At(s, p + 1) = "-"
  IN IF n = 0 THEN JsonFail
     ELSE IF f = 0 /\ x = 0 THEN JsonAt(IntV(sign * DigitsValue(Slice(s, d, d + n), 10)), d + n)
     ELSE JsonAt([t |-> "float",
                  f |-> FloatOfLiteral(sign, DigitsOf(Slice(s, d, d + n) \o Slice(s, d + n + 1, d + n + 1 + f)),
                                       f, neg,
                                       IF x = 0 THEN <<>> ELSE ExponentValue(Slice(s, q, q + x)))],
                 IF x = 0 THEN p ELSE q + x)

\* d[k] = v on a dict kept in insertion order
RECURSIVE json_set(_, _, _)
json_set(d, k, v) ==
  IF d = <<>> THEN <<<<k, v>>>>
  ELSE IF Head(d)[1] = k THEN <<<<k, v>>>> \o Tail(d)
  ELSE <<Head(d)>> \o json_set(Tail(d), k, v)

RECURSIVE json_value(_, _)
RECURSIVE json_object(_, _, _, _)
RECURSIVE json_array(_, _, _, _)

\* json.scanner.py_make_scanner _scan_once(s, i)
json_value(s, i) ==
  IF i >= Len(s) THEN JsonFail
  ELSE IF At(s, i) = "\"" THEN json_string(s, i + 1, <<>>)
  ELSE IF At(s, i) = "{" THEN json_object(s, json_skip(s, i + 1), <<>>, TRUE)
  ELSE IF At(s, i) = "[" THEN json_array(s, json_skip(s, i + 1), <<>>, TRUE)
  ELSE IF Slice(s, i, i + 4) = <<"n", "u", "l", "l">> THEN JsonAt(NoneV, i + 4)
  ELSE IF Slice(s, i, i + 4) = <<"t", "r", "u", "e">> THEN JsonAt(BoolV(TRUE), i + 4)
  ELSE IF Slice(s, i, i + 5) = <<"f", "a", "l", "s", "e">> THEN JsonAt(BoolV(FALSE), i + 5)
  ELSE IF Slice(s, i, i + 3) = <<"N", "a", "N">> THEN JsonAt([t |-> "float", f |-> FloatNan], i + 3)
  ELSE IF Slice(s, i, i + 8) = <<"I", "n", "f", "i", "n", "i", "t", "y">>
    THEN JsonAt([t |-> "float", f |-> FloatInf(1)], i + 8)
  ELSE IF Slice(s, i, i + 9) = <<"-", "I", "n", "f", "i", "n", "i", "t", "y">>
    THEN JsonAt([t |-> "float", f |-> FloatInf(-1)], i + 9)
  ELSE IF At(s, i) \in Digits \cup {"-"} THEN json_number(s, i)
  ELSE JsonFail

\* json.decoder.JSONObject with position i on the next member; first is
\* whether no member has been read yet
json_object(s, i, pairs, first) ==
  IF i >= Len(s) THEN JsonFail
  ELSE IF first /\ At(s, i) = "}" THEN JsonAt(DictV(pairs), i + 1)
  ELSE IF At(s, i) # "\"" THEN JsonFail
  ELSE LET FromValue(k, v) ==
             IF ~v.ok \/ json_skip(s, v.end) >= Len(s) THEN JsonFail
             ELSE IF At(s, json_skip(s, v.end)) = "}"
               THEN JsonAt(DictV(json_set(pairs, k, v.val)), json_skip(s, v.end) + 1)
             ELSE IF At(s, json_skip(s, v.end)) = ","
               THEN json_object(s, json_skip(s, json_skip(s, v.end) + 1),
                                json_set(pairs, k, v.val), FALSE)
             ELSE JsonFail
           FromKey(k) ==
             IF ~k.ok \/ json_skip(s, k.end) >= Len(s) THEN JsonFail
             ELSE IF At(s, json_skip(s, k.end)) # ":" THEN JsonFail
             ELSE FromValue(k.val, json_value(s, json_skip(s, json_skip(s, k.end) + 1)))
       IN FromKey(json_string(s, i + 1, <<>>))

\* json.decoder.JSONArray with position i on the next item
json_array(s, i, items, first) ==
  IF i >= Len(s) THEN JsonFail
  ELSE IF first /\ At(s, i) = "]" THEN JsonAt(ListV(items), i + 1)
  ELSE LET FromValue(v) ==
             IF ~v.ok \/ json_skip(s, v.end) >= Len(s) THEN JsonFail
             ELSE IF At(s, json_skip(s, v.end)) = "]"
               THEN JsonAt(ListV(Append(items, v.val)), json_skip(s, v.end) + 1)
             ELSE IF At(s, json_skip(s, v.end)) = ","
               THEN json_array(s, json_skip(s, json_skip(s, v.end) + 1),
                               Append(items, v.val), FALSE)
             ELSE JsonFail
       IN FromValue(json_value(s, i))

\* json.loads(s)
json_loads(s) ==
  LET Whole(r) == IF r.ok /\ json_skip(s, r.end) = Len(s) THEN Ok(r.val)
                  ELSE Raise("JSONDecodeError")
  IN Whole(json_value(s, json_skip(s, 0)))

\* META_KEY.search(line) on one line: "% ", a key, ":" at the line's start
META_KEY_search(line) ==
  LET n == RunLen(line, 2, NodeNameChar) IN
  IF Slice(line, 0, 2) = <<"%", " ">> /\ n >= 1 /\ 2 + n < Len(line)
     /\ At(line, 2 + n) = ":"
  THEN [found |-> TRUE, end |-> 2 + n + 1, key |-> Slice(line, 2, 2 + n)]
  ELSE [found |-> FALSE]

\* the defaults of parse_metadata
DefaultMetadata ==
  (<<"t", "i", "t", "l", "e">> :> <<"U", "n", "t", "i", "t", "l", "e", "d">>) @@ (<<"a", "u", "t", "h", "o", "r">> :> <<"U", "n", "k", "n", "o", "w", "n">>)
  @@ (<<"s", "t", "a", "r", "t">> :> <<"E", "r", "r", "o", "r", ":", " ", "y", "o", "u", " ", "m", "u", "s", "t", " ", "s", "p", "e", "c", "i", "f", "y", " ", "a", " ", "s", "t", "a", "r", "t", "i", "n", "g", " ", "s", "t", "o", "r", "y", " ", "n", "o", "d", "e", ".">>)
  @@ (<<"m", "o", "d", "u", "l", "e", "s">> :> <<"[", "]">>) @@ (<<"s", "t", "a", "t", "e">> :> <<"{", "}">>)

\* the for loop of parse_metadata at line i: the metadata and the index the
\* loop stops at, which is the last line when no line breaks the loop
RECURSIVE metadata_loop(_, _, _, _)
metadata_loop(lines, i, metadata, current_key) ==
  LET line == lines[i + 1]
      match == META_KEY_search(line)
      Step(md, key) ==
        IF i + 1 >= Len(lines) THEN [metadata |-> md, i |-> i]
        ELSE metadata_loop(lines, i + 1, md, key)
  IN IF Strip(line) = <<>> THEN Step(metadata, current_key)
     ELSE IF Head(line) = "%" THEN
       IF match.found
         THEN Step(DictSet(metadata, match.key, Strip(SliceFrom(line, match.end))),
                   StrV(match.key))
       ELSE IF current_key # NoneV
         THEN Step(DictSet(metadata, current_key.s,
                           metadata[current_key.s] \o <<" ">> \o Strip(SliceFrom(line, 1))),
                   current_key)
       ELSE Step(metadata, current_key)
     ELSE [metadata |-> metadata, i |-> i]

\* parse_metadata(src): (metadata, leftovers)
parse_metadata(src) ==
  LET lines == split_lines(src)
      Loaded(r, st, mods) ==
        IF st.exc # "" THEN st
        ELSE IF mods.exc # "" THEN mods
        ELSE Ok(<<DictSet(DictSet(r.metadata, <<"s", "t", "a", "t", "e">>, st.val),
                          <<"m", "o", "d", "u", "l", "e", "s">>, mods.val),
                  Join(<<"\n">>, SubSeq(lines, r.i + 1, Len(lines)))>>)
      Load(r) == Loaded(r, json_loads(r.metadata[<<"s", "t", "a", "t", "e">>]),
                        json_loads(r.metadata[<<"m", "o", "d", "u", "l", "e", "s">>]))
  IN Load(metadata_loop(lines, 0, DefaultMetadata, NoneV))

\* Story.__init__ as parse_story calls it, with five positional arguments:
\* the fifth parameter is modules, and setup keeps its default
Story_new(title, author, start, nodes, modules) ==
  IF \E k \in DOMAIN nodes : nodes[k][1] = start
  THEN Ok(Story(title, author, start, nodes,
                IF Truthy(modules) THEN modules ELSE ListV(<<>>), DictV(<<>>)))
  ELSE Raise("ValueError")

\* the "while sn" loop of parse_story: the parsed nodes as the dictionary
\* { node.name: node for node in nodes }
RECURSIVE parse_nodes(_, _)
parse_nodes(src, nodes) ==
  LET Parsed(r) ==
        IF r.exc # "" THEN r
        ELSE IF r.val[1] = NoneV THEN Ok(nodes)
        ELSE parse_nodes(r.val[2], OrderedSet(nodes, r.val[1].name, r.val[1]))
  IN Parsed(parse_first_node(src))

\* parse_story(src): the header's state is handed to Story as its modules,
\* and the header's modules are not handed on
parse_story(src) ==
  LET Build(meta, nodes) ==
        IF nodes.exc # "" THEN nodes
        ELSE Story_new(meta[<<"t", "i", "t", "l", "e">>], meta[<<"a", "u", "t", "h", "o", "r">>], meta[<<"s", "t", "a", "r", "t">>],
                       nodes.val, meta[<<"s", "t", "a", "t", "e">>])
      Nodes(m) == IF m.exc # "" THEN m ELSE Build(m.val[1], parse_nodes(m.val[2], <<>>))
  IN Nodes(parse_metadata(remove_comments(normalize_newlines(src))))

\* the "for node_name in story.nodes" loop of render_story
RECURSIVE render_nodes(_)
render_nodes(nodes) ==
  IF nodes = <<>> THEN <<>>
  ELSE <<"\n">> \o render_node(Head(nodes)[2]) \o render_nodes(Tail(nodes))

\* render_story(story): a non-empty setup reaches "preamble +=" with
\* preamble unassigned
render_story(story) ==
  IF Truthy(story.setup) THEN Raise("UnboundLocalError")
  ELSE Ok(<<"%", " ", "t", "i", "t", "l", "e", ":", " ">> \o story.title \o <<"\n", "%", " ", "a", "u", "t", "h", "o", "r", ":", " ">> \o story.author
          \o <<"\n", "%", " ", "s", "t", "a", "r", "t", ":", " ">> \o story.start \o <<"\n">> \o render_nodes(story.nodes))

(***************************************************************************)
(* The story format: sources are parsed, rendered and parsed again         *)
(* (SpecFormat)                                                            *)
(***************************************************************************)
\* the most fragments a node's body is made of
MaxFrags == 3

\* the pieces of a node's body: words, soft and hard line breaks, and a link
\* in each of its four forms
NodeFragments ==
  {<<"a">>, <<"b">>, <<" ">>, <<"\n">>, <<"\n", "\n">>,
   <<"[", "[", "a", "]", "]">>, <<"[", "[", "a", "|", "b", "]", "]">>, <<"[", "[", "a", "|", "|", "t", "]", "]">>, <<"[", "[", "a", "|", "b", "|", "t", "]", "]">>}


NodeSources ==
  {<<"#", " ", "n", "\n", "\n">> \o Concat(fs) : fs \in UNION {[1..n -> NodeFragments] : n \in 0..MaxFrags}}

\* the lines of a story's header and the node blocks after it
TitleLines == {<<>>, <<"%", " ", "t", "i", "t", "l", "e", ":", " ", "T", "\n", "%", " ", "a", "u", "t", "h", "o", "r", ":", " ", "A", "\n">>}
StateLines == {<<>>, <<"%", " ", "s", "t", "a", "t", "e", ":", " ", "{", "}", "\n">>, <<"%", " ", "s", "t", "a", "t", "e", ":", " ", "{", "\"", "x", "\"", ":", " ", "1", "}", "\n">>, <<"%", " ", "s", "t", "a", "t", "e", ":", " ", "{", "\"", "x", "\"", ":", "\n", "%", " ", " ", " ", "1", "}", "\n">>}
ModulesLines == {<<>>, <<"%", " ", "m", "o", "d", "u", "l", "e", "s", ":", " ", "[", "\"", "m", "\"", "]", "\n">>}
NodeBlocks ==
  {<<"\n", "#", " ", "n", "\n", "\n", "h", "i", "\n">>, <<"\n", "#", " ", "n", "\n", "\n", "g", "o", " ", "[", "[", "o", "n", "|", "m", "]", "]", "\n", "\n", "#", " ", "m", "\n", "\n", "t", "h", "e", " ", "e", "n", "d", "\n">>,
   <<"\n", "#", " ", "n", "\n", "\n", "a", "\n", "\n", "b", "\n">>, <<"\n", "#", " ", "m", "\n", "\n", "h", "i", "\n">>}
StorySources ==
  {t \o <<"%", " ", "s", "t", "a", "r", "t", ":", " ", "n", "\n">> \o s \o m \o b :
     t \in TitleLines, s \in StateLines, m \in ModulesLines, b \in NodeBlocks}

FormatInputs ==
  {[kind |-> "node", src |-> s] : s \in NodeSources}
  \cup {[kind |-> "story", src |-> s] : s \in StorySources}

InitFormat ==
  /\ state = <<>>
  /\ last = [op |-> "none"]
  /\ steps = 0
  /\ pin \in FormatInputs
  /\ pout = NoParse

\* parse_first_node(src)
ParseNode ==
  /\ pin.kind = "node"
  /\ pout = NoParse
  /\ pout' = [kind |-> "parsed", r |-> parse_first_node(pin.src)]
  /\ UNCHANGED <<state, last, steps, pin>>

\* render_node(node) of the node that was parsed
RenderNode ==
  /\ pout.kind = "parsed"
  /\ pout.r.exc = ""
  /\ pout.r.val[1] # NoneV
  /\ pout' = [kind |-> "rendered", n |-> pout.r.val[1], left |-> pout.r.val[2],
              text |-> render_node(pout.r.val[1])]
  /\ UNCHANGED <<state, last, steps, pin>>

\* parse_first_node(rstr) of the rendered text
ReparseNode ==
  /\ pout.kind = "rendered"
  /\ pout' = [kind |-> "reparsed", n |-> pout.n, left |-> pout.left,
              text |-> pout.text, r |-> parse_first_node(pout.text)]
  /\ UNCHANGED <<state, last, steps, pin>>

\* parse_story(src)
ParseStory ==
  /\ pin.kind = "story"
  /\ pout = NoParse
  /\ pout' = [kind |-> "story_parsed", r |-> parse_story(pin.src)]
  /\ UNCHANGED <<state, last, steps, pin>>

\* render_story(story) of the story that was parsed
RenderStory ==
  /\ pout.kind = "story_parsed"
  /\ pout.r.exc = ""
  /\ pout' = [kind |-> "story_rendered", story |-> pout.r.val,
              text |-> render_story(pout.r.val)]
  /\ UNCHANGED <<state, last, steps, pin>>

\* parse_story(rstr) of the rendered text
ReparseStory ==
  /\ pout.kind = "story_rendered"
  /\ pout.text.exc = ""
  /\ pout' = [kind |-> "story_reparsed", story |-> pout.story,
              text |-> pout.text, r |-> parse_story(pout.text.val)]
  /\ UNCHANGED <<state, last, steps, pin>>

NextFormat ==
  ParseNode \/ RenderNode \/ ReparseNode \/ ParseStory \/ RenderStory \/ ReparseStory

SpecFormat == InitFormat /\ [][NextFormat]_vars

(***************************************************************************)
(* Properties of the story format (SpecFormat)                             *)
(***************************************************************************)
\* C19: the node parsed from a node source, rendered and parsed again, gives
\* a node equal to it in name, content and successors, and leaves nothing
\* over.
C19_NodeRoundTrip ==
  (pin.kind = "node" /\ pout.kind = "reparsed") =>
    /\ pout.r.exc = ""
    /\ IF pout.r.val[1] = NoneV THEN FALSE ELSE StoryNode_eq(pout.r.val[1], pout.n)
    /\ Strip(pout.r.val[2]) = <<>>

\* the nodes of a story as a set, each with its successors as a set
NodeSet(nodes) ==
  {[name |-> nodes[i][1], content |-> nodes[i][2].content,
    successors |-> {nodes[i][2].successors[j] : j \in DOMAIN nodes[i][2].successors}] :
     i \in DOMAIN nodes}

\* two stories equal in title, author, start node, nodes, modules and setup
SameStory(a, b) ==
  /\ a.title = b.title
  /\ a.author = b.author
  /\ a.start = b.start
  /\ NodeSet(a.nodes) = NodeSet(b.nodes)
  /\ a.modules = b.modules
  /\ a.setup = b.setup

\* C20: the story parsed from a story source, also one whose header sets
\* state and modules, is rendered without an error, and the rendered text
\* parses to a story equal to it in title, author, start node, nodes,
\* modules and setup.
C20_StoryRoundTrip ==
  /\ (pin.kind = "story" /\ pout.kind = "story_rendered") => pout.text.exc = ""
  /\ (pin.kind = "story" /\ pout.kind = "story_reparsed") =>
       /\ pout.r.exc = ""
       /\ IF pout.r.exc = "" THEN SameStory(pout.r.val, pout.story) ELSE FALSE

\* the header of a story source as parse_story reads it
HeaderOf(src) == parse_metadata(remove_comments(normalize_newlines(src)))

\* C21: the story parse_story returns has setup equal to the value of the
\* header's state key and modules equal to the list of the header's modules
\* key (both empty when absent), and its start node is one of its nodes; a
\* source whose start node is missing fails with an error.
C21_HeaderMapping ==
  (pin.kind = "story" /\ pout.kind = "story_parsed" /\ HeaderOf(pin.src).exc = "") =>
    IF pout.r.exc = ""
    THEN /\ pout.r.val.setup = HeaderOf(pin.src).val[1][<<"s", "t", "a", "t", "e">>]
         /\ pout.r.val.modules = HeaderOf(pin.src).val[1][<<"m", "o", "d", "u", "l", "e", "s">>]
         /\ \E k \in DOMAIN pout.r.val.nodes : pout.r.val.nodes[k][1] = pout.r.val.start
    ELSE pout.r.exc = "ValueError"

(***************************************************************************)
(* story.py: fuzzy_match, the story commands and Story.advance             *)
(***************************************************************************)
Alphabet ==
  <<"a", "b", "c", "d", "e", "f", "g", "h", "i", "j", "k", "l", "m", "n", "o", "p", "q", "r", "s", "t", "u", "v", "w", "x", "y", "z">>
Capitals ==
  <<"A", "B", "C", "D", "E", "F", "G", "H", "I", "J", "K", "L", "M", "N", "O", "P", "Q", "R", "S", "T", "U", "V", "W", "X", "Y", "Z">>
\* The case tables of the Unicode database that str.lower() and str.title()
\* read (version 14.0, the one of the interpreter the repository runs on).
\* A run <<first, last, step, shift>> gives code + shift for every code from
\* first to last that is a multiple of step away from first; the special
\* entries <<code, codes>> are the characters whose image is longer than one
\* character; a range is <<first, last>>.
LowerRuns ==
  <<<<65, 90, 1, 32>>, <<192, 214, 1, 32>>, <<216, 222, 1, 32>>, <<256, 302, 2, 1>>,
    <<306, 310, 2, 1>>, <<313, 327, 2, 1>>, <<330, 374, 2, 1>>, <<376, 376, 1, -121>>,
    <<377, 381, 2, 1>>, <<385, 385, 1, 210>>, <<386, 388, 2, 1>>, <<390, 390, 1, 206>>,
    <<391, 391, 1, 1>>, <<393, 394, 1, 205>>, <<395, 395, 1, 1>>, <<398, 398, 1, 79>>,
    <<399, 399, 1, 202>>, <<400, 400, 1, 203>>, <<401, 401, 1, 1>>, <<403, 403, 1, 205>>,
    <<404, 404, 1, 207>>, <<406, 406, 1, 211>>, <<407, 407, 1, 209>>, <<408, 408, 1, 1>>,
    <<412, 412, 1, 211>>, <<413, 413, 1, 213>>, <<415, 415, 1, 214>>, <<416, 420, 2, 1>>,
    <<422, 422, 1, 218>>, <<423, 423, 1, 1>>, <<425, 425, 1, 218>>, <<428, 428, 1, 1>>,
    <<430, 430, 1, 218>>, <<431, 431, 1, 1>>, <<433, 434, 1, 217>>, <<435, 437, 2, 1>>,
    <<439, 439, 1, 219>>, <<440, 440, 1, 1>>, <<444, 444, 1, 1>>, <<452, 452, 1, 2>>,
    <<453, 453, 1, 1>>, <<455, 455, 1, 2>>, <<456, 456, 1, 1>>, <<458, 458, 1, 2>>,
    <<459, 475, 2, 1>>, <<478, 494, 2, 1>>, <<497, 497, 1, 2>>, <<498, 500, 2, 1>>,
    <<502, 502, 1, -97>>, <<503, 503, 1, -56>>, <<504, 542, 2, 1>>, <<544, 544, 1, -130>>,
    <<546, 562, 2, 1>>, <<570, 570, 1, 10795>>, <<571, 571, 1, 1>>, <<573, 573, 1, -163>>,
    <<574, 574, 1, 10792>>, <<577, 577, 1, 1>>, <<579, 579, 1, -195>>, <<580, 580, 1, 69>>,
    <<581, 581, 1, 71>>, <<582, 590, 2, 1>>, <<880, 882, 2, 1>>, <<886, 886, 1, 1>>,
    <<895, 895, 1, 116>>, <<902, 902, 1, 38>>, <<904, 906, 1, 37>>, <<908, 908, 1, 64>>,
    <<910, 911, 1, 63>>, <<913, 929, 1, 32>>, <<931, 939, 1, 32>>, <<975, 975, 1, 8>>,
    <<984, 1006, 2, 1>>, <<1012, 1012, 1, -60>>, <<1015, 1015, 1, 1>>, <<1017, 1017, 1, -7>>,
    <<1018, 1018, 1, 1>>, <<1021, 1023, 1, -130>>, <<1024, 1039, 1, 80>>, <<1040, 1071, 1, 32>>,
    <<1120, 1152, 2, 1>>, <<1162, 1214, 2, 1>>, <<1216, 1216, 1, 15>>, <<1217, 1229, 2, 1>>,
    <<1232, 1326, 2, 1>>, <<1329, 1366, 1, 48>>, <<4256, 4293, 1, 7264>>, <<4295, 4295, 1, 7264>>,
    <<4301, 4301, 1, 7264>>, <<5024, 5103, 1, 38864>>, <<5104, 5109, 1, 8>>,
    <<7312, 7354, 1, -3008>>, <<7357, 7359, 1, -3008>>, <<7680, 7828, 2, 1>>,
    <<7838, 7838, 1, -7615>>, <<7840, 7934, 2, 1>>, <<7944, 7951, 1, -8>>, <<7960, 7965, 1, -8>>,
    <<7976, 7983, 1, -8>>, <<7992, 7999, 1, -8>>, <<8008, 8013, 1, -8>>, <<8025, 8031, 2, -8>>,
    <<8040, 8047, 1, -8>>, <<8072, 8079, 1, -8>>, <<8088, 8095, 1, -8>>, <<8104, 8111, 1, -8>>,
    <<8120, 8121, 1, -8>>, <<8122, 8123, 1, -74>>, <<8124, 8124, 1, -9>>, <<8136, 8139, 1, -86>>,
    <<8140, 8140, 1, -9>>, <<8152, 8153, 1, -8>>, <<8154, 8155, 1, -100>>, <<8168, 8169, 1, -8>>,
    <<8170, 8171, 1, -112>>, <<8172, 8172, 1, -7>>, <<8184, 8185, 1, -128>>, <<8186, 8187, 1, -126>>,
    <<8188, 8188, 1, -9>>, <<8486, 8486, 1, -7517>>, <<8490, 8490, 1, -8383>>,
    <<8491, 8491, 1, -8262>>, <<8498, 8498, 1, 28>>, <<8544, 8559, 1, 16>>, <<8579, 8579, 1, 1>>,
    <<9398, 9423, 1, 26>>, <<11264, 11311, 1, 48>>, <<11360, 11360, 1, 1>>,
    <<11362, 11362, 1, -10743>>, <<11363, 11363, 1, -3814>>, <<11364, 11364, 1, -10727>>,
    <<11367, 11371, 2, 1>>, <<11373, 11373, 1, -10780>>, <<11374, 11374, 1, -10749>>,
    <<11375, 11375, 1, -10783>>, <<11376, 11376, 1, -10782>>, <<11378, 11378, 1, 1>>,
    <<11381, 11381, 1, 1>>, <<11390, 11391, 1, -10815>>, <<11392, 11490, 2, 1>>,
    <<11499, 11501, 2, 1>>, <<11506, 11506, 1, 1>>, <<42560, 42604, 2, 1>>, <<42624, 42650, 2, 1>>,
    <<42786, 42798, 2, 1>>, <<42802, 42862, 2, 1>>, <<42873, 42875, 2, 1>>,
    <<42877, 42877, 1, -35332>>, <<42878, 42886, 2, 1>>, <<42891, 42891, 1, 1>>,
    <<42893, 42893, 1, -42280>>, <<42896, 42898, 2, 1>>, <<42902, 42920, 2, 1>>,
    <<42922, 42922, 1, -42308>>, <<42923, 42923, 1, -42319>>, <<42924, 42924, 1, -42315>>,
    <<42925, 42925, 1, -42305>>, <<42926, 42926, 1, -42308>>, <<42928, 42928, 1, -42258>>,
    <<42929, 42929, 1, -42282>>, <<42930, 42930, 1, -42261>>, <<42931, 42931, 1, 928>>,
    <<42932, 42946, 2, 1>>, <<42948, 42948, 1, -48>>, <<42949, 42949, 1, -42307>>,
    <<42950, 42950, 1, -35384>>, <<42951, 42953, 2, 1>>, <<42960, 42960, 1, 1>>,
    <<42966, 42968, 2, 1>>, <<42997, 42997, 1, 1>>, <<65313, 65338, 1, 32>>, <<66560, 66599, 1, 40>>,
    <<66736, 66771, 1, 40>>, <<66928, 66938, 1, 39>>, <<66940, 66954, 1, 39>>,
    <<66956, 66962, 1, 39>>, <<66964, 66965, 1, 39>>, <<68736, 68786, 1, 64>>,
    <<71840, 71871, 1, 32>>, <<93760, 93791, 1, 32>>, <<125184, 125217, 1, 34>>>>
LowerSpecial ==
  <<<<304, <<105, 775>>>>>>
TitleRuns ==
  <<<<97, 122, 1, -32>>, <<181, 181, 1, 743>>, <<224, 246, 1, -32>>, <<248, 254, 1, -32>>,
    <<255, 255, 1, 121>>, <<257, 303, 2, -1>>, <<305, 305, 1, -232>>, <<307, 311, 2, -1>>,
    <<314, 328, 2, -1>>, <<331, 375, 2, -1>>, <<378, 382, 2, -1>>, <<383, 383, 1, -300>>,
    <<384, 384, 1, 195>>, <<387, 389, 2, -1>>, <<392, 392, 1, -1>>, <<396, 396, 1, -1>>,
    <<402, 402, 1, -1>>, <<405, 405, 1, 97>>, <<409, 409, 1, -1>>, <<410, 410, 1, 163>>,
    <<414, 414, 1, 130>>, <<417, 421, 2, -1>>, <<424, 424, 1, -1>>, <<429, 429, 1, -1>>,
    <<432, 432, 1, -1>>, <<436, 438, 2, -1>>, <<441, 441, 1, -1>>, <<445, 445, 1, -1>>,
    <<447, 447, 1, 56>>, <<452, 452, 1, 1>>, <<454, 454, 1, -1>>, <<455, 455, 1, 1>>,
    <<457, 457, 1, -1>>, <<458, 458, 1, 1>>, <<460, 476, 2, -1>>, <<477, 477, 1, -79>>,
    <<479, 495, 2, -1>>, <<497, 497, 1, 1>>, <<499, 501, 2, -1>>, <<505, 543, 2, -1>>,
    <<547, 563, 2, -1>>, <<572, 572, 1, -1>>, <<575, 576, 1, 10815>>, <<578, 578, 1, -1>>,
    <<583, 591, 2, -1>>, <<592, 592, 1, 10783>>, <<593, 593, 1, 10780>>, <<594, 594, 1, 10782>>,
    <<595, 595, 1, -210>>, <<596, 596, 1, -206>>, <<598, 599, 1, -205>>, <<601, 601, 1, -202>>,
    <<603, 603, 1, -203>>, <<604, 604, 1, 42319>>, <<608, 608, 1, -205>>, <<609, 609, 1, 42315>>,
    <<611, 611, 1, -207>>, <<613, 613, 1, 42280>>, <<614, 614, 1, 42308>>, <<616, 616, 1, -209>>,
    <<617, 617, 1, -211>>, <<618, 618, 1, 42308>>, <<619, 619, 1, 10743>>, <<620, 620, 1, 42305>>,
    <<623, 623, 1, -211>>, <<625, 625, 1, 10749>>, <<626, 626, 1, -213>>, <<629, 629, 1, -214>>,
    <<637, 637, 1, 10727>>, <<640, 640, 1, -218>>, <<642, 642, 1, 42307>>, <<643, 643, 1, -218>>,
    <<647, 647, 1, 42282>>, <<648, 648, 1, -218>>, <<649, 649, 1, -69>>, <<650, 651, 1, -217>>,
    <<652, 652, 1, -71>>, <<658, 658, 1, -219>>, <<669, 669, 1, 42261>>, <<670, 670, 1, 42258>>,
    <<837, 837, 1, 84>>, <<881, 883, 2, -1>>, <<887, 887, 1, -1>>, <<891, 893, 1, 130>>,
    <<940, 940, 1, -38>>, <<941, 943, 1, -37>>, <<945, 961, 1, -32>>, <<962, 962, 1, -31>>,
    <<963, 971, 1, -32>>, <<972, 972, 1, -64>>, <<973, 974, 1, -63>>, <<976, 976, 1, -62>>,
    <<977, 977, 1, -57>>, <<981, 981, 1, -47>>, <<982, 982, 1, -54>>, <<983, 983, 1, -8>>,
    <<985, 1007, 2, -1>>, <<1008, 1008, 1, -86>>, <<1009, 1009, 1, -80>>, <<1010, 1010, 1, 7>>,
    <<1011, 1011, 1, -116>>, <<1013, 1013, 1, -96>>, <<1016, 1016, 1, -1>>, <<1019, 1019, 1, -1>>,
    <<1072, 1103, 1, -32>>, <<1104, 1119, 1, -80>>, <<1121, 1153, 2, -1>>, <<1163, 1215, 2, -1>>,
    <<1218, 1230, 2, -1>>, <<1231, 1231, 1, -15>>, <<1233, 1327, 2, -1>>, <<1377, 1414, 1, -48>>,
    <<5112, 5117, 1, -8>>, <<7296, 7296, 1, -6254>>, <<7297, 7297, 1, -6253>>,
    <<7298, 7298, 1, -6244>>, <<7299, 7300, 1, -6242>>, <<7301, 7301, 1, -6243>>,
    <<7302, 7302, 1, -6236>>, <<7303, 7303, 1, -6181>>, <<7304, 7304, 1, 35266>>,
    <<7545, 7545, 1, 35332>>, <<7549, 7549, 1, 3814>>, <<7566, 7566, 1, 35384>>,
    <<7681, 7829, 2, -1>>, <<7835, 7835, 1, -59>>, <<7841, 7935, 2, -1>>, <<7936, 7943, 1, 8>>,
    <<7952, 7957, 1, 8>>, <<7968, 7975, 1, 8>>, <<7984, 7991, 1, 8>>, <<8000, 8005, 1, 8>>,
    <<8017, 8023, 2, 8>>, <<8032, 8039, 1, 8>>, <<8048, 8049, 1, 74>>, <<8050, 8053, 1, 86>>,
    <<8054, 8055, 1, 100>>, <<8056, 8057, 1, 128>>, <<8058, 8059, 1, 112>>, <<8060, 8061, 1, 126>>,
    <<8064, 8071, 1, 8>>, <<8080, 8087, 1, 8>>, <<8096, 8103, 1, 8>>, <<8112, 8113, 1, 8>>,
    <<8115, 8115, 1, 9>>, <<8126, 8126, 1, -7205>>, <<8131, 8131, 1, 9>>, <<8144, 8145, 1, 8>>,
    <<8160, 8161, 1, 8>>, <<8165, 8165, 1, 7>>, <<8179, 8179, 1, 9>>, <<8526, 8526, 1, -28>>,
    <<8560, 8575, 1, -16>>, <<8580, 8580, 1, -1>>, <<9424, 9449, 1, -26>>, <<11312, 11359, 1, -48>>,
    <<11361, 11361, 1, -1>>, <<11365, 11365, 1, -10795>>, <<11366, 11366, 1, -10792>>,
    <<11368, 11372, 2, -1>>, <<11379, 11379, 1, -1>>, <<11382, 11382, 1, -1>>,
    <<11393, 11491, 2, -1>>, <<11500, 11502, 2, -1>>, <<11507, 11507, 1, -1>>,
    <<11520, 11557, 1, -7264>>, <<11559, 11559, 1, -7264>>, <<11565, 11565, 1, -7264>>,
    <<42561, 42605, 2, -1>>, <<42625, 42651, 2, -1>>, <<42787, 42799, 2, -1>>,
    <<42803, 42863, 2, -1>>, <<42874, 42876, 2, -1>>, <<42879, 42887, 2, -1>>,
    <<42892, 42892, 1, -1>>, <<42897, 42899, 2, -1>>, <<42900, 42900, 1, 48>>,
    <<42903, 42921, 2, -1>>, <<42933, 42947, 2, -1>>, <<42952, 42954, 2, -1>>,
    <<42961, 42961, 1, -1>>, <<42967, 42969, 2, -1>>, <<42998, 42998, 1, -1>>,
    <<43859, 43859, 1, -928>>, <<43888, 43967, 1, -38864>>, <<65345, 65370, 1, -32>>,
    <<66600, 66639, 1, -40>>, <<66776, 66811, 1, -40>>, <<66967, 66977, 1, -39>>,
    <<66979, 66993, 1, -39>>, <<66995, 67001, 1, -39>>, <<67003, 67004, 1, -39>>,
    <<68800, 68850, 1, -64>>, <<71872, 71903, 1, -32>>, <<93792, 93823, 1, -32>>,
    <<125218, 125251, 1, -34>>>>
TitleSpecial ==
  <<<<223, <<83, 115>>>>, <<329, <<700, 78>>>>, <<496, <<74, 780>>>>, <<912, <<921, 776, 769>>>>,
    <<944, <<933, 776, 769>>>>, <<1415, <<1333, 1410>>>>, <<7830, <<72, 817>>>>,
    <<7831, <<84, 776>>>>, <<7832, <<87, 778>>>>, <<7833, <<89, 778>>>>, <<7834, <<65, 702>>>>,
    <<8016, <<933, 787>>>>, <<8018, <<933, 787, 768>>>>, <<8020, <<933, 787, 769>>>>,
    <<8022, <<933, 787, 834>>>>, <<8114, <<8122, 837>>>>, <<8116, <<902, 837>>>>,
    <<8118, <<913, 834>>>>, <<8119, <<913, 834, 837>>>>, <<8130, <<8138, 837>>>>,
    <<8132, <<905, 837>>>>, <<8134, <<919, 834>>>>, <<8135, <<919, 834, 837>>>>,
    <<8146, <<921, 776, 768>>>>, <<8147, <<921, 776, 769>>>>, <<8150, <<921, 834>>>>,
    <<8151, <<921, 776, 834>>>>, <<8162, <<933, 776, 768>>>>, <<8163, <<933, 776, 769>>>>,
    <<8164, <<929, 787>>>>, <<8166, <<933, 834>>>>, <<8167, <<933, 776, 834>>>>,
    <<8178, <<8186, 837>>>>, <<8180, <<911, 837>>>>, <<8182, <<937, 834>>>>,
    <<8183, <<937, 834, 837>>>>, <<64256, <<70, 102>>>>, <<64257, <<70, 105>>>>,
    <<64258, <<70, 108>>>>, <<64259, <<70, 102, 105>>>>, <<64260, <<70, 102, 108>>>>,
    <<64261, <<83, 116>>>>, <<64262, <<83, 116>>>>, <<64275, <<1348, 1398>>>>,
    <<64276, <<1348, 1381>>>>, <<64277, <<1348, 1387>>>>, <<64278, <<1358, 1398>>>>,
    <<64279, <<1348, 1389>>>>>>
CasedRanges ==
  <<<<65, 90>>, <<97, 122>>, <<170, 170>>, <<181, 181>>, <<186, 186>>, <<192, 214>>, <<216, 246>>,
    <<248, 442>>, <<444, 447>>, <<452, 659>>, <<661, 696>>, <<704, 705>>, <<736, 740>>, <<837, 837>>,
    <<880, 883>>, <<886, 887>>, <<890, 893>>, <<895, 895>>, <<902, 902>>, <<904, 906>>, <<908, 908>>,
    <<910, 929>>, <<931, 1013>>, <<1015, 1153>>, <<1162, 1327>>, <<1329, 1366>>, <<1376, 1416>>,
    <<4256, 4293>>, <<4295, 4295>>, <<4301, 4301>>, <<4304, 4346>>, <<4349, 4351>>, <<5024, 5109>>,
    <<5112, 5117>>, <<7296, 7304>>, <<7312, 7354>>, <<7357, 7359>>, <<7424, 7615>>, <<7680, 7957>>,
    <<7960, 7965>>, <<7968, 8005>>, <<8008, 8013>>, <<8016, 8023>>, <<8025, 8025>>, <<8027, 8027>>,
    <<8029, 8029>>, <<8031, 8061>>, <<8064, 8116>>, <<8118, 8124>>, <<8126, 8126>>, <<8130, 8132>>,
    <<8134, 8140>>, <<8144, 8147>>, <<8150, 8155>>, <<8160, 8172>>, <<8178, 8180>>, <<8182, 8188>>,
    <<8305, 8305>>, <<8319, 8319>>, <<8336, 8348>>, <<8450, 8450>>, <<8455, 8455>>, <<8458, 8467>>,
    <<8469, 8469>>, <<8473, 8477>>, <<8484, 8484>>, <<8486, 8486>>, <<8488, 8488>>, <<8490, 8493>>,
    <<8495, 8500>>, <<8505, 8505>>, <<8508, 8511>>, <<8517, 8521>>, <<8526, 8526>>, <<8544, 8575>>,
    <<8579, 8580>>, <<9398, 9449>>, <<11264, 11492>>, <<11499, 11502>>, <<11506, 11507>>,
    <<11520, 11557>>, <<11559, 11559>>, <<11565, 11565>>, <<42560, 42605>>, <<42624, 42653>>,
    <<42786, 42887>>, <<42891, 42894>>, <<42896, 42954>>, <<42960, 42961>>, <<42963, 42963>>,
    <<42965, 42969>>, <<42997, 42998>>, <<43000, 43002>>, <<43824, 43866>>, <<43868, 43880>>,
    <<43888, 43967>>, <<64256, 64262>>, <<64275, 64279>>, <<65313, 65338>>, <<65345, 65370>>,
    <<66560, 66639>>, <<66736, 66771>>, <<66776, 66811>>, <<66928, 66938>>, <<66940, 66954>>,
    <<66956, 66962>>, <<66964, 66965>>, <<66967, 66977>>, <<66979, 66993>>, <<66995, 67001>>,
    <<67003, 67004>>, <<67456, 67456>>, <<67459, 67461>>, <<67463, 67504>>, <<67506, 67514>>,
    <<68736, 68786>>, <<68800, 68850>>, <<71840, 71903>>, <<93760, 93823>>, <<119808, 119892>>,
    <<119894, 119964>>, <<119966, 119967>>, <<119970, 119970>>, <<119973, 119974>>,
    <<119977, 119980>>, <<119982, 119993>>, <<119995, 119995>>, <<119997, 120003>>,
    <<120005, 120069>>, <<120071, 120074>>, <<120077, 120084>>, <<120086, 120092>>,
    <<120094, 120121>>, <<120123, 120126>>, <<120128, 120132>>, <<120134, 120134>>,
    <<120138, 120144>>, <<120146, 120485>>, <<120488, 120512>>, <<120514, 120538>>,
    <<120540, 120570>>, <<120572, 120596>>, <<120598, 120628>>, <<120630, 120654>>,
    <<120656, 120686>>, <<120688, 120712>>, <<120714, 120744>>, <<120746, 120770>>,
    <<120772, 120779>>, <<122624, 122633>>, <<122635, 122654>>, <<125184, 125251>>,
    <<127280, 127305>>, <<127312, 127337>>, <<127344, 127369>>>>
CaseIgnorableRanges ==
  <<<<39, 39>>, <<46, 46>>, <<58, 58>>, <<94, 94>>, <<96, 96>>, <<168, 168>>, <<173, 173>>,
    <<175, 175>>, <<180, 180>>, <<183, 184>>, <<688, 879>>, <<884, 885>>, <<890, 890>>, <<900, 901>>,
    <<903, 903>>, <<1155, 1161>>, <<1369, 1369>>, <<1375, 1375>>, <<1425, 1469>>, <<1471, 1471>>,
    <<1473, 1474>>, <<1476, 1477>>, <<1479, 1479>>, <<1524, 1524>>, <<1536, 1541>>, <<1552, 1562>>,
    <<1564, 1564>>, <<1600, 1600>>, <<1611, 1631>>, <<1648, 1648>>, <<1750, 1757>>, <<1759, 1768>>,
    <<1770, 1773>>, <<1807, 1807>>, <<1809, 1809>>, <<1840, 1866>>, <<1958, 1968>>, <<2027, 2037>>,
    <<2042, 2042>>, <<2045, 2045>>, <<2070, 2093>>, <<2137, 2139>>, <<2184, 2184>>, <<2192, 2193>>,
    <<2200, 2207>>, <<2249, 2306>>, <<2362, 2362>>, <<2364, 2364>>, <<2369, 2376>>, <<2381, 2381>>,
    <<2385, 2391>>, <<2402, 2403>>, <<2417, 2417>>, <<2433, 2433>>, <<2492, 2492>>, <<2497, 2500>>,
    <<2509, 2509>>, <<2530, 2531>>, <<2558, 2558>>, <<2561, 2562>>, <<2620, 2620>>, <<2625, 2626>>,
    <<2631, 2632>>, <<2635, 2637>>, <<2641, 2641>>, <<2672, 2673>>, <<2677, 2677>>, <<2689, 2690>>,
    <<2748, 2748>>, <<2753, 2757>>, <<2759, 2760>>, <<2765, 2765>>, <<2786, 2787>>, <<2810, 2815>>,
    <<2817, 2817>>, <<2876, 2876>>, <<2879, 2879>>, <<2881, 2884>>, <<2893, 2893>>, <<2901, 2902>>,
    <<2914, 2915>>, <<2946, 2946>>, <<3008, 3008>>, <<3021, 3021>>, <<3072, 3072>>, <<3076, 3076>>,
    <<3132, 3132>>, <<3134, 3136>>, <<3142, 3144>>, <<3146, 3149>>, <<3157, 3158>>, <<3170, 3171>>,
    <<3201, 3201>>, <<3260, 3260>>, <<3263, 3263>>, <<3270, 3270>>, <<3276, 3277>>, <<3298, 3299>>,
    <<3328, 3329>>, <<3387, 3388>>, <<3393, 3396>>, <<3405, 3405>>, <<3426, 3427>>, <<3457, 3457>>,
    <<3530, 3530>>, <<3538, 3540>>, <<3542, 3542>>, <<3633, 3633>>, <<3636, 3642>>, <<3654, 3662>>,
    <<3761, 3761>>, <<3764, 3772>>, <<3782, 3782>>, <<3784, 3789>>, <<3864, 3865>>, <<3893, 3893>>,
    <<3895, 3895>>, <<3897, 3897>>, <<3953, 3966>>, <<3968, 3972>>, <<3974, 3975>>, <<3981, 3991>>,
    <<3993, 4028>>, <<4038, 4038>>, <<4141, 4144>>, <<4146, 4151>>, <<4153, 4154>>, <<4157, 4158>>,
    <<4184, 4185>>, <<4190, 4192>>, <<4209, 4212>>, <<4226, 4226>>, <<4229, 4230>>, <<4237, 4237>>,
    <<4253, 4253>>, <<4348, 4348>>, <<4957, 4959>>, <<5906, 5908>>, <<5938, 5939>>, <<5970, 5971>>,
    <<6002, 6003>>, <<6068, 6069>>, <<6071, 6077>>, <<6086, 6086>>, <<6089, 6099>>, <<6103, 6103>>,
    <<6109, 6109>>, <<6155, 6159>>, <<6211, 6211>>, <<6277, 6278>>, <<6313, 6313>>, <<6432, 6434>>,
    <<6439, 6440>>, <<6450, 6450>>, <<6457, 6459>>, <<6679, 6680>>, <<6683, 6683>>, <<6742, 6742>>,
    <<6744, 6750>>, <<6752, 6752>>, <<6754, 6754>>, <<6757, 6764>>, <<6771, 6780>>, <<6783, 6783>>,
    <<6823, 6823>>, <<6832, 6862>>, <<6912, 6915>>, <<6964, 6964>>, <<6966, 6970>>, <<6972, 6972>>,
    <<6978, 6978>>, <<7019, 7027>>, <<7040, 7041>>, <<7074, 7077>>, <<7080, 7081>>, <<7083, 7085>>,
    <<7142, 7142>>, <<7144, 7145>>, <<7149, 7149>>, <<7151, 7153>>, <<7212, 7219>>, <<7222, 7223>>,
    <<7288, 7293>>, <<7376, 7378>>, <<7380, 7392>>, <<7394, 7400>>, <<7405, 7405>>, <<7412, 7412>>,
    <<7416, 7417>>, <<7468, 7530>>, <<7544, 7544>>, <<7579, 7679>>, <<8125, 8125>>, <<8127, 8129>>,
    <<8141, 8143>>, <<8157, 8159>>, <<8173, 8175>>, <<8189, 8190>>, <<8203, 8207>>, <<8216, 8217>>,
    <<8228, 8228>>, <<8231, 8231>>, <<8234, 8238>>, <<8288, 8292>>, <<8294, 8303>>, <<8305, 8305>>,
    <<8319, 8319>>, <<8336, 8348>>, <<8400, 8432>>, <<11388, 11389>>, <<11503, 11505>>,
    <<11631, 11631>>, <<11647, 11647>>, <<11744, 11775>>, <<11823, 11823>>, <<12293, 12293>>,
    <<12330, 12333>>, <<12337, 12341>>, <<12347, 12347>>, <<12441, 12446>>, <<12540, 12542>>,
    <<40981, 40981>>, <<42232, 42237>>, <<42508, 42508>>, <<42607, 42610>>, <<42612, 42621>>,
    <<42623, 42623>>, <<42652, 42655>>, <<42736, 42737>>, <<42752, 42785>>, <<42864, 42864>>,
    <<42888, 42890>>, <<42994, 42996>>, <<43000, 43001>>, <<43010, 43010>>, <<43014, 43014>>,
    <<43019, 43019>>, <<43045, 43046>>, <<43052, 43052>>, <<43204, 43205>>, <<43232, 43249>>,
    <<43263, 43263>>, <<43302, 43309>>, <<43335, 43345>>, <<43392, 43394>>, <<43443, 43443>>,
    <<43446, 43449>>, <<43452, 43453>>, <<43471, 43471>>, <<43493, 43494>>, <<43561, 43566>>,
    <<43569, 43570>>, <<43573, 43574>>, <<43587, 43587>>, <<43596, 43596>>, <<43632, 43632>>,
    <<43644, 43644>>, <<43696, 43696>>, <<43698, 43700>>, <<43703, 43704>>, <<43710, 43711>>,
    <<43713, 43713>>, <<43741, 43741>>, <<43756, 43757>>, <<43763, 43764>>, <<43766, 43766>>,
    <<43867, 43871>>, <<43881, 43883>>, <<44005, 44005>>, <<44008, 44008>>, <<44013, 44013>>,
    <<64286, 64286>>, <<64434, 64450>>, <<65024, 65039>>, <<65043, 65043>>, <<65056, 65071>>,
    <<65106, 65106>>, <<65109, 65109>>, <<65279, 65279>>, <<65287, 65287>>, <<65294, 65294>>,
    <<65306, 65306>>, <<65342, 65342>>, <<65344, 65344>>, <<65392, 65392>>, <<65438, 65439>>,
    <<65507, 65507>>, <<65529, 65531>>, <<66045, 66045>>, <<66272, 66272>>, <<66422, 66426>>,
    <<67456, 67461>>, <<67463, 67504>>, <<67506, 67514>>, <<68097, 68099>>, <<68101, 68102>>,
    <<68108, 68111>>, <<68152, 68154>>, <<68159, 68159>>, <<68325, 68326>>, <<68900, 68903>>,
    <<69291, 69292>>, <<69446, 69456>>, <<69506, 69509>>, <<69633, 69633>>, <<69688, 69702>>,
    <<69744, 69744>>, <<69747, 69748>>, <<69759, 69761>>, <<69811, 69814>>, <<69817, 69818>>,
    <<69821, 69821>>, <<69826, 69826>>, <<69837, 69837>>, <<69888, 69890>>, <<69927, 69931>>,
    <<69933, 69940>>, <<70003, 70003>>, <<70016, 70017>>, <<70070, 70078>>, <<70089, 70092>>,
    <<70095, 70095>>, <<70191, 70193>>, <<70196, 70196>>, <<70198, 70199>>, <<70206, 70206>>,
    <<70367, 70367>>, <<70371, 70378>>, <<70400, 70401>>, <<70459, 70460>>, <<70464, 70464>>,
    <<70502, 70508>>, <<70512, 70516>>, <<70712, 70719>>, <<70722, 70724>>, <<70726, 70726>>,
    <<70750, 70750>>, <<70835, 70840>>, <<70842, 70842>>, <<70847, 70848>>, <<70850, 70851>>,
    <<71090, 71093>>, <<71100, 71101>>, <<71103, 71104>>, <<71132, 71133>>, <<71219, 71226>>,
    <<71229, 71229>>, <<71231, 71232>>, <<71339, 71339>>, <<71341, 71341>>, <<71344, 71349>>,
    <<71351, 71351>>, <<71453, 71455>>, <<71458, 71461>>, <<71463, 71467>>, <<71727, 71735>>,
    <<71737, 71738>>, <<71995, 71996>>, <<71998, 71998>>, <<72003, 72003>>, <<72148, 72151>>,
    <<72154, 72155>>, <<72160, 72160>>, <<72193, 72202>>, <<72243, 72248>>, <<72251, 72254>>,
    <<72263, 72263>>, <<72273, 72278>>, <<72281, 72283>>, <<72330, 72342>>, <<72344, 72345>>,
    <<72752, 72758>>, <<72760, 72765>>, <<72767, 72767>>, <<72850, 72871>>, <<72874, 72880>>,
    <<72882, 72883>>, <<72885, 72886>>, <<73009, 73014>>, <<73018, 73018>>, <<73020, 73021>>,
    <<73023, 73029>>, <<73031, 73031>>, <<73104, 73105>>, <<73109, 73109>>, <<73111, 73111>>,
    <<73459, 73460>>, <<78896, 78904>>, <<92912, 92916>>, <<92976, 92982>>, <<92992, 92995>>,
    <<94031, 94031>>, <<94095, 94111>>, <<94176, 94177>>, <<94179, 94180>>, <<110576, 110579>>,
    <<110581, 110587>>, <<110589, 110590>>, <<113821, 113822>>, <<113824, 113827>>,
    <<118528, 118573>>, <<118576, 118598>>, <<119143, 119145>>, <<119155, 119170>>,
    <<119173, 119179>>, <<119210, 119213>>, <<119362, 119364>>, <<121344, 121398>>,
    <<121403, 121452>>, <<121461, 121461>>, <<121476, 121476>>, <<121499, 121503>>,
    <<121505, 121519>>, <<122880, 122886>>, <<122888, 122904>>, <<122907, 122913>>,
    <<122915, 122916>>, <<122918, 122922>>, <<123184, 123197>>, <<123566, 123566>>,
    <<123628, 123631>>, <<125136, 125142>>, <<125252, 125259>>, <<127995, 127999>>,
    <<917505, 917505>>, <<917536, 917631>>, <<917760, 917999>>>>

InRanges(rs, code) == \E k \in 1..Len(rs) : code >= rs[k][1] /\ code <= rs[k][2]
CaseMapped(runs, special, code) ==
  LET Shifted(ks) == IF ks = {} THEN <<Chr(code)>> ELSE <<Chr(code + runs[CHOOSE k \in ks : TRUE][4])>>
      Long(xs) ==
        IF xs # {} THEN SubSeq([j \in 1..Len(special[CHOOSE k \in xs : TRUE][2]) |->
                                  Chr(special[CHOOSE k \in xs : TRUE][2][j])],
                               1, Len(special[CHOOSE k \in xs : TRUE][2]))
        ELSE Shifted({k \in 1..Len(runs) :
                        /\ code >= runs[k][1] /\ code <= runs[k][2]
                        /\ (code - runs[k][1]) % runs[k][3] = 0})
  IN Long({k \in 1..Len(special) : special[k][1] = code})

\* the characters of ASCII, whose case needs no table
IsAscii(c) == c \in {Ascii[k] : k \in 1..95} \cup {"\t", "\n", "\f", "\r"}
\* _PyUnicode_IsCased(c) and _PyUnicode_IsCaseIgnorable(c)
IsCased(c) == IF IsAscii(c) THEN c \in Lower \cup Upper ELSE InRanges(CasedRanges, Ord(c))
IsCaseIgnorable(c) == InRanges(CaseIgnorableRanges, Ord(c))

\* lower_ucs4: the lower case of the character s[i], one or two characters.
\* A capital sigma becomes the final sigma when the nearest character before
\* it that is not case-ignorable is cased and the nearest one after it is
\* not (handle_capital_sigma).
lower_ucs4(s, i) ==
  LET Final(before, after) ==
        /\ before # {}
        /\ IsCased(s[CHOOSE j \in before : \A k \in before : k <= j])
        /\ (after = {} \/ ~IsCased(s[CHOOSE j \in after : \A k \in after : j <= k]))
  IN IF s[i] \in Upper THEN <<Alphabet[CHOOSE k \in 1..26 : Capitals[k] = s[i]]>>
     ELSE IF IsAscii(s[i]) THEN <<s[i]>>
     ELSE IF s[i] = Chr(931)
       THEN IF Final({j \in 1..(i - 1) : ~IsCaseIgnorable(s[j])},
                     {j \in (i + 1)..Len(s) : ~IsCaseIgnorable(s[j])})
            THEN <<Chr(962)>> ELSE <<Chr(963)>>
     ELSE CaseMapped(LowerRuns, LowerSpecial, Ord(s[i]))
\* _PyUnicode_ToTitleFull(c)
title_char(c) ==
  IF c \in Lower THEN <<Capitals[CHOOSE k \in 1..26 : Alphabet[k] = c]>>
  ELSE IF IsAscii(c) THEN <<c>>
  ELSE CaseMapped(TitleRuns, TitleSpecial, Ord(c))

\* the characters of the images, in their order
CaseJoined(ps) ==
  IF \A i \in 1..Len(ps) : Len(ps[i]) = 1 THEN SubSeq([i \in 1..Len(ps) |-> ps[i][1]], 1, Len(ps))
  ELSE Join(<<>>, ps)

\* str.lower()
str_lower(s) == CaseJoined(SubSeq([i \in 1..Len(s) |-> lower_ucs4(s, i)], 1, Len(s)))

\* str.title(): a character that follows a cased character is lowered, any
\* other character gets its title case
str_title(s) ==
  CaseJoined(SubSeq([i \in 1..Len(s) |->
                      IF i > 1 /\ IsCased(s[i - 1]) THEN lower_ucs4(s, i) ELSE title_char(s[i])],
                    1, Len(s)))

\* editdistance.eval(a, b): the Levenshtein distance
editdistance_eval(a, b) ==
  LET D[i \in 0..Len(a), j \in 0..Len(b)] ==
        IF i = 0 THEN j
        ELSE IF j = 0 THEN i
        ELSE Min2(Min2(D[i - 1, j] + 1, D[i, j - 1] + 1),
                  D[i - 1, j - 1] + (IF a[i] = b[j] THEN 0 ELSE 1))
  IN D[Len(a), Len(b)]

\* the "for op in options" loop of fuzzy_match, with best as (match, distance)
RECURSIVE fuzzy_loop(_, _, _, _, _)
fuzzy_loop(target, options, k, cutoff, best) ==
  IF k > Len(options) THEN best
  ELSE LET Better(ed) ==
             IF (best[2] < 0 /\ (cutoff.t = "none" \/ ed <= PV(cutoff))) \/ ed < best[2]
             THEN <<StrV(options[k]), ed>> ELSE best
       IN fuzzy_loop(target, options, k + 1, cutoff, Better(editdistance_eval(target, options[k])))

\* fuzzy_match(target, options, cutoff): (match or None, edit distance)
fuzzy_match(target, options, cutoff) ==
  IF \E k \in DOMAIN options : options[k] = target THEN <<StrV(target), 0>>
  ELSE fuzzy_loop(target, options, 1, cutoff, <<NoneV, -1>>)

\* what advance returns: the texts and the new current node as the value,
\* and the reference of the new state
Continuation(texts, node_name, w, st) ==
  Ret(TupleV(<<ListV(texts), StrV(node_name)>>), st, w)

\* cmd_title(story, node_name, state)
cmd_title(story, w, st, node_name) ==
  Continuation(<<StrV(<<"T", "h", "i", "s", " ", "s", "t", "o", "r", "y", " ", "i", "s", " ", "'">> \o str_title(story.title) \o <<"'", ",", " ", "b", "y", " ">>
                      \o story.author \o <<".">>)>>,
               node_name, w, st)

\* the keys of STORY_COMMANDS; both name cmd_title
STORY_COMMANDS == {<<"/", "t", "i", "t", "l", "e", "/">>, <<"/", "a", "u", "t", "h", "o", "r", "/">>}

\* config.ACTION_DISTANCE_THRESHOLD as story.py reads it: story.py does not
\* import config, so the name config is not defined
config_ACTION_DISTANCE_THRESHOLD == Raise("NameError")

\* Story.display_node(node, state) handed a StoryNode: the isinstance(node,
\* str) branch that assigns text is skipped, and the return reads text
display_node_object(story, mf, w, st, node) == Exc("UnboundLocalError", w)

\* the "starting over" lines of advance: a fresh initial state, the visit of
\* the start node, and display_node of the start node's StoryNode
start_over(story, mf, w) ==
  LET Shown(v, fresh) ==
        IF v.exc # "" THEN v
        ELSE display_node_object(story, mf, v.w, fresh, story.nodes[story.start])
      Visited(w1, fresh) == Shown(visit(story, w1, fresh, story.start, NoneV), fresh)
  IN Visited(Allocate(w, initial_state(story)), Len(w.heap) + 1)

\* Story.display_transition(node, option, state): eval_text is handed the
\* module finder in the place of its context, and no module finder
display_transition(story, mf, w, st, node, option) ==
  LET Stripped(r) == IF r.exc # "" THEN r ELSE Ret(StrV(Strip(PV(r.val))), r.st, r.w)
      Evaluated(tt, r) == IF tt.exc # "" THEN Exc(tt.exc, w) ELSE Stripped(r)
      transition_text ==
        PyIndex(node.successors[CHOOSE k \in DOMAIN node.successors :
                                  node.successors[k][1] = option][2], IntV(1))
  IN Evaluated(transition_text,
               call_eval_text(IF transition_text.exc # "" THEN <<>> ELSE PV(transition_text.val),
                              story, w, st, FinderValue(mf), NoFinder))

STATUS == <<"_", "s", "t", "a", "t", "u", "s", "_">>
TELLING_END == <<"T", "h", "i", "s", " ", "t", "e", "l", "l", "i", "n", "g", " ", "h", "a", "s", " ", "c", "o", "m", "e", " ", "t", "o", " ", "a", "n", " ", "e", "n", "d", ".">>

\* advance once the matching key is known: the destination, the transition,
\* the status, the visit and the display of the next node
advance_matched(story, mf, w, st, node_name, decision, shown, matching_key) ==
  LET node == story.nodes[node_name]
      Displayed(d, transition_text, next_name) ==
        IF d.exc # "" THEN [r |-> d, shown |-> shown]
        ELSE [r |-> Continuation(<<transition_text, d.val>>, next_name, d.w, d.st),
              shown |-> PV(d.val)]
      Visited(v, new_state, transition_text, next_name) ==
        IF v.exc # "" THEN [r |-> v, shown |-> shown]
        ELSE Displayed(display_node_object(story, mf, v.w, new_state, story.nodes[next_name]),
                       transition_text, next_name)
      Next_node(w2, new_state, transition_text, next_name) ==
        IF next_name \notin DOMAIN story.nodes
        THEN [r |-> start_over(story, mf, w2), shown |-> shown]
        ELSE Visited(visit(story,
                           IF story.nodes[next_name].successors = <<>>
                           THEN SetItem(w2, new_state, STATUS, StrV(<<"f", "i", "n", "i", "s", "h", "e", "d">>)) ELSE w2,
                           new_state, next_name, StrV(node_name)),
                     new_state, transition_text, next_name)
      Transition(t, next_name) ==
        IF t.exc # "" THEN [r |-> t, shown |-> shown]
        ELSE IF STATUS \notin DOMAIN t.w.heap[t.st] THEN [r |-> Exc("KeyError", t.w), shown |-> shown]
        ELSE Next_node(IF PyEq(t.w.heap[t.st][STATUS], StrV(<<"b", "e", "g", "i", "n", "n", "i", "n", "g">>))
                       THEN SetItem(t.w, t.st, STATUS, StrV(<<"u", "n", "f", "o", "l", "d", "i", "n", "g">>)) ELSE t.w,
                       t.st, t.val, next_name)
      Chosen(next, t) ==
        IF next.exc # "" THEN [r |-> Exc(next.exc, w), shown |-> shown]
        ELSE Transition(t, PV(next.val))
  IN IF matching_key = NoneV
     THEN [r |-> Continuation(<<StrV(<<"I", "'", "m", " ", "n", "o", "t", " ", "s", "u", "r", "e", " ", "w", "h", "a", "t", " ", "y", "o", "u", " ", "m", "e", "a", "n", " ", "b", "y", " ", "'">> \o str_lower(decision) \o <<"'", ".">>),
                                StrV(shown)>>, node_name, w, st),
           shown |-> shown]
     ELSE IF ~\E k \in DOMAIN node.successors : node.successors[k][1] = PV(matching_key)
     THEN [r |-> Exc("KeyError", w), shown |-> shown]
     ELSE Chosen(PyIndex(node.successors[CHOOSE k \in DOMAIN node.successors :
                                           node.successors[k][1] = PV(matching_key)][2], IntV(0)),
                 display_transition(story, mf, w, st, node, PV(matching_key)))

\* the fuzzy_match call of advance: its arguments are evaluated first, and
\* the cutoff is the last of them
advance_choice(story, mf, w, st, node_name, decision, shown, cutoff) ==
  IF cutoff.exc # "" THEN [r |-> Exc(cutoff.exc, w), shown |-> shown]
  ELSE advance_matched(story, mf, w, st, node_name, decision, shown,
                       fuzzy_match(str_lower(decision),
                                   [k \in DOMAIN story.nodes[node_name].successors |->
                                      str_lower(story.nodes[node_name].successors[k][1])],
                                   cutoff.val)[1])

\* Story.advance(node_name, state, decision) with shown the story's
\* current_node_text: the continuation and the new current_node_text
advance(story, mf, w, st, node_name, decision, shown) ==
  IF node_name \notin DOMAIN story.nodes
  THEN [r |-> start_over(story, mf, w), shown |-> shown]
  ELSE IF STATUS \notin DOMAIN w.heap[st] THEN [r |-> Exc("KeyError", w), shown |-> shown]
  ELSE IF PyEq(w.heap[st][STATUS], StrV(<<"f", "i", "n", "i", "s", "h", "e", "d">>))
  THEN [r |-> Continuation(<<StrV(TELLING_END)>>, node_name, w, st), shown |-> TELLING_END]
  ELSE IF str_lower(decision) \in STORY_COMMANDS
  THEN [r |-> cmd_title(story, w, st, node_name), shown |-> shown]
  ELSE advance_choice(story, mf, w, st, node_name, decision, shown,
                      config_ACTION_DISTANCE_THRESHOLD)

(***************************************************************************)
(* A telling: the caller holds the current node and the state, and calls   *)
(* Story.advance with a decision (SpecTelling). pout holds the Story       *)
(* object and its current_node_text.                                       *)
(***************************************************************************)
\* the largest number of calls of a telling
MaxTurns == 3

\* the node that parse_first_node builds from a source, as a node of a story
TaleNode(src) ==
  LET Node(n) == StoryNode(n.content, n.successors)
  IN Node(parse_first_node(src).val[1])

\* the story of the telling: node a has a link with a transition that sets
\* mood, a link without a transition and a link whose label has a capital;
\* node home is an ending
TheTale ==
  Story(<<"t", "h", "e", " ", "t", "a", "l", "e">>, <<"m", "e">>, <<"a">>,
        (<<"a">> :> TaleNode(<<"#", " ", "a", "\n", "\n", "[", "[", "g", "o", "|", "h", "o", "m", "e", "|", "(", "s", "e", "t", "~", " ", "m", "o", "o", "d", "~", " ", "\"", "h", "a", "p", "p", "y", "\"", ")", "]", "]", " ", "t", "o", "d", "a", "y", " ", "o", "r", " ", "[", "[", "s", "t", "a", "y", "|", "a", "]", "]", " ", "o", "r", " ", "[", "[", "U", "p", "|", "b", "|", "o", "n", "w", "a", "r", "d", "]", "]", "\n">>))
          @@ (<<"b">> :> TaleNode(<<"#", " ", "b", "\n", "\n", "i", "n", " ", "b", ",", " ", "[", "[", "b", "a", "c", "k", "|", "a", "]", "]", " ", "o", "r", " ", "[", "[", "o", "n", "|", "h", "o", "m", "e", "|", "a", "t", " ", "l", "a", "s", "t", "]", "]", "\n">>))
          @@ (<<"h", "o", "m", "e">> :> TaleNode(<<"#", " ", "h", "o", "m", "e", "\n", "\n", "t", "h", "e", " ", "e", "n", "d", "\n">>)),
        <<>>,
        (<<"e", "n", "d">> :> StrV(<<"f", "i", "n", "i", "s", "h", "e", "d">>)) @@ (<<"m", "i", "d">> :> StrV(<<"u", "n", "f", "o", "l", "d", "i", "n", "g">>)))

\* the nodes advance is called at (one of them is not a node of the story)
\* and the decisions: labels in both letter cases, a story command and a
\* decision that is far from every label
TellingNodes == {<<"a">>, <<"b">>, <<"h", "o", "m", "e">>, <<"n", "o", "w", "h", "e", "r", "e">>}
Decisions ==
  {<<"g", "o">>, <<"G", "O">>, <<"s", "t", "a", "y">>, <<"u", "p">>, <<"b", "a", "c", "k">>, <<"o", "n">>, <<"/", "t", "i", "t", "l", "e", "/">>, <<"e", "l", "s", "e", "w", "h", "e", "r", "e">>}

InitTelling ==
  LET Of(tale) ==
        /\ state = CanonicalState(initial_state(tale))
        /\ last = [op |-> "none"]
        /\ steps = 0
        /\ pin = [kind |-> "telling", at |-> tale.start]
        /\ pout = [kind |-> "story", story |-> tale, current_node_text |-> <<>>]
  IN Of(TheTale)

\* the caller keeps the node and the state that a call returns, and its own
\* when the call raises
Told(op, input, r, at, shown) ==
  /\ steps < MaxTurns
  /\ steps' = steps + 1
  /\ state' = Canonical(IF r.exc = "" THEN r.w.heap[r.st] ELSE r.w.heap[1])
  /\ last' = [op |-> op, input |-> input, before |-> state, at |-> pin.at,
              exc |-> r.exc, val |-> IF r.exc = "" THEN Plain(r.val) ELSE NoneV,
              state |-> state']
  /\ pin' = [pin EXCEPT !.at = IF r.exc = "" THEN at ELSE @]
  /\ pout' = [pout EXCEPT !.current_node_text = shown]

\* Story.visit(state, start, None) at the beginning of a telling
Begin ==
  /\ steps = 0
  /\ Told("visit", [node |-> pout.story.start],
          visit(pout.story, NewWorld(state), 1, pout.story.start, NoneV),
          pout.story.start, pout.current_node_text)

\* Story.advance(node_name, state, decision)
DoAdvance(node_name, decision) ==
  /\ steps > 0
  /\ LET Returned(a) ==
           Told("advance", [node |-> node_name, decision |-> decision], a.r,
                IF a.r.exc = "" THEN PV(PV(a.r.val)[2]) ELSE pin.at, a.shown)
     IN Returned(advance(pout.story, NoFinder, NewWorld(state), 1, node_name, decision,
                         pout.current_node_text))

\* macro.eval_macro("set", [name, expr], story, state): what the macros of
\* a story do to the state of a telling
DoSet(name, expr) ==
  /\ steps > 0
  /\ Told("eval_macro", [name |-> <<"s", "e", "t">>, args |-> <<name, expr>>],
          call_eval_macro(<<"s", "e", "t">>, <<name, expr>>, pout.story, NewWorld(state), 1, NoFinder),
          pin.at, pout.current_node_text)

NextTelling ==
  \/ Begin
  \/ \E n \in TellingNodes, d \in Decisions : DoAdvance(n, d)
  \/ \E n \in {STATUS, ERRORS}, e \in DOMAIN pout.story.setup \cup {<<"n", "o", "p", "e">>} : DoSet(n, e)

SpecTelling == InitTelling /\ [][NextTelling]_vars

(***************************************************************************)
(* Properties of a telling (SpecTelling)                                   *)
(***************************************************************************)
\* the links of a node whose label is the decision in some letter case
LinksFor(node_name, decision) ==
  {k \in DOMAIN pout.story.nodes[node_name].successors :
     str_lower(pout.story.nodes[node_name].successors[k][1]) = str_lower(decision)}

\* the destination and the transition text that a link was written with
DestinationOf(value) == IF value.t = "str" THEN PV(value) ELSE PV(PV(value)[1])
TransitionOf(value) == IF value.t = "str" THEN <<>> ELSE PV(PV(value)[2])

\* an advance of a telling that has not finished, at a node of the story
AdvanceCalled ==
  /\ last.op = "advance"
  /\ last.input.node \in DOMAIN pout.story.nodes
  /\ STATUS \in DOMAIN last.before
  /\ last.before[STATUS] # StrV(<<"f", "i", "n", "i", "s", "h", "e", "d">>)

\* C22: an advance whose decision is the label of a link of the node, in
\* any letter case and with or without a transition text, returns the
\* link's destination as the new node; the returned state has the visit of
\* the destination and the mutations of the transition (mood is "happy"
\* after the link "go"), and the texts are the transition text and the
\* destination's text with its options highlighted.
C22_AdvanceFollowsLink ==
  AdvanceCalled =>
    \A k \in LinksFor(last.input.node, last.input.decision) :
      LET value == pout.story.nodes[last.input.node].successors[k][2]
          dest == DestinationOf(value)
      IN /\ last.exc = ""
         /\ IF last.exc = ""
            THEN /\ PV(last.val)[2] = StrV(dest)
                 /\ last.state[<<"_", "n", "o", "d", "e">>] = StrV(dest)
                 /\ last.state[<<"_", "p", "r", "e", "v">>] = StrV(last.input.node)
                 /\ pout.story.nodes[last.input.node].successors[k][1] = <<"g", "o">> =>
                       /\ <<"m", "o", "o", "d">> \in DOMAIN last.state
                       /\ last.state[<<"m", "o", "o", "d">>] = StrV(<<"h", "a", "p", "p", "y">>)
                 /\ Len(PV(PV(last.val)[1])) = 2
                 /\ TransitionOf(value) \in {<<>>, <<"o", "n", "w", "a", "r", "d">>, <<"a", "t", " ", "l", "a", "s", "t">>} =>
                       PV(PV(last.val)[1])[1] = StrV(TransitionOf(value))
                 /\ PV(PV(last.val)[1])[2] =
                      StrV(highlight_content(pout.story.nodes[dest].content,
                                             pout.story.nodes[dest].successors))
            ELSE FALSE

\* config.ACTION_DISTANCE_THRESHOLD
ACTION_DISTANCE_THRESHOLD == 4

\* the place of a status in the order beginning, unfolding, finished
StatusRank(d) ==
  IF STATUS \notin DOMAIN d THEN -1
  ELSE IF d[STATUS] = StrV(<<"b", "e", "g", "i", "n", "n", "i", "n", "g">>) THEN 0
  ELSE IF d[STATUS] = StrV(<<"u", "n", "f", "o", "l", "d", "i", "n", "g">>) THEN 1
  ELSE IF d[STATUS] = StrV(<<"f", "i", "n", "i", "s", "h", "e", "d">>) THEN 2
  ELSE -1

\* the decision is no story command and is farther than the threshold from
\* every label of the node
MatchesNoLink(node_name, decision) ==
  /\ str_lower(decision) \notin STORY_COMMANDS
  /\ \A k \in DOMAIN pout.story.nodes[node_name].successors :
       editdistance_eval(str_lower(decision),
                         str_lower(pout.story.nodes[node_name].successors[k][1]))
         > ACTION_DISTANCE_THRESHOLD

\* C30: along the advance calls of a telling, _status_ never moves back in
\* the order beginning, unfolding, finished, and following a link makes it
\* finished exactly when the destination is an ending; an advance of a
\* finished telling returns the same node, the state unchanged and the one
\* text "This telling has come to an end."; an advance whose decision
\* matches no link returns the same node and the state unchanged.
C30_StatusMonotone ==
  (last.op = "advance" /\ last.input.node \in DOMAIN pout.story.nodes
     /\ StatusRank(last.before) >= 0) =>
    /\ last.exc = "" => StatusRank(last.state) >= StatusRank(last.before)
    /\ StatusRank(last.before) = 2 =>
         /\ last.exc = ""
         /\ last.val = TupleV(<<ListV(<<StrV(TELLING_END)>>), StrV(last.input.node)>>)
         /\ last.state = last.before
    /\ (StatusRank(last.before) < 2 /\ MatchesNoLink(last.input.node, last.input.decision)) =>
         /\ last.exc = ""
         /\ IF last.exc = "" THEN PV(last.val)[2] = StrV(last.input.node) ELSE FALSE
         /\ last.state = last.before
    /\ (StatusRank(last.before) < 2) =>
         \A k \in LinksFor(last.input.node, last.input.decision) :
           /\ last.exc = ""
           /\ (StatusRank(last.state) = 2) <=>
                (pout.story.nodes[DestinationOf(pout.story.nodes[last.input.node].successors[k][2])].successors = <<>>)

(***************************************************************************)
(* Further properties of the evaluator (Spec)                              *)
(***************************************************************************)
\* the variables of a state that are neither node-local nor system
\* variables (their names do not begin with "_")
StoryVariables(d) == {v \in DOMAIN d : v = <<>> \/ v[1] # "_"}

\* the entries of the _errors_ list of a state
ErrorsOf(d) == IF ERRORS \in DOMAIN d /\ d[ERRORS].t = "list" THEN PV(d[ERRORS]) ELSE <<>>

\* C23: the calls of a text are evaluated in their order, each on the state
\* the one before it left: (set~ y ~ 1)(add~ y ~ 2) gives the text "12" and
\* a state where y is 3 and every other variable is as before; (add~ nope ~
\* 1), on a state without nope, gives the text of an error and leaves the
\* variables as they were.
C23_SetAddThreadState ==
  /\ (last.op = "eval_text" /\ last.input.text = <<"(", "s", "e", "t", "~", " ", "y", " ", "~", " ", "1", ")", "(", "a", "d", "d", "~", " ", "y", " ", "~", " ", "2", ")">>) =>
       /\ last.exc = ""
       /\ last.val = StrV(<<"1", "2">>)
       /\ StoryVariables(last.state) = StoryVariables(last.before) \cup {<<"y">>}
       /\ last.state[<<"y">>] = IntV(3)
       /\ \A v \in StoryVariables(last.before) \ {<<"y">>} : Plain(last.state[v]) = Plain(last.before[v])
  /\ (last.op = "eval_text" /\ last.input.text = <<"(", "a", "d", "d", "~", " ", "n", "o", "p", "e", " ", "~", " ", "1", ")">>) =>
       /\ last.exc = ""
       /\ IsErrorText(last.val)
       /\ StoryVariables(last.state) = StoryVariables(last.before)
       /\ \A v \in StoryVariables(last.before) : Plain(last.state[v]) = Plain(last.before[v])

\* C24: the _errors_ list of the state a macro evaluation returns begins
\* with the _errors_ list of the state it was given: no entry is removed,
\* moved or reset.
C24_ErrorsAppendOnly ==
  (last.op \in {"eval_text", "eval_macro"} /\ last.exc = "") =>
    /\ ERRORS \in DOMAIN last.before => (ERRORS \in DOMAIN last.state /\ last.state[ERRORS].t = "list")
    /\ Len(ErrorsOf(last.state)) >= Len(ErrorsOf(last.before))
    /\ SubSeq(ErrorsOf(last.state), 1, Len(ErrorsOf(last.before))) = ErrorsOf(last.before)

\* C28: when if reaches the condition else after a false condition, the
\* result paired with else is the value, and no entry is added to _errors_:
\* (if~ False ~ r1 ~ else ~ 1) gives 1 and leaves _errors_ as it was.
C28_ElseRecordsNoError ==
  (last.op = "eval_macro" /\ last.input.name = <<"i", "f">>
     /\ last.input.args = <<<<"F", "a", "l", "s", "e">>, <<"r", "1">>, <<"e", "l", "s", "e">>, <<"1">>>>) =>
    /\ last.exc = ""
    /\ last.val = IntV(1)
    /\ ErrorsOf(last.state) = ErrorsOf(last.before)

\* C29: a text that a builtin evaluates (text, select, once, again) is
\* evaluated with the context and the module finder of the enclosing text:
\* (once~ (context~ 0)) gives what (context~ 0) gives in the same text, and
\* the context of the text that select evaluates is never the module finder.
C29_NestedTextKeepsContext ==
  /\ (last.op = "eval_text" /\ last.input.text = <<"(", "o", "n", "c", "e", "~", " ", "(", "c", "o", "n", "t", "e", "x", "t", "~", " ", "0", ")", ")">>
        /\ FIRST \in DOMAIN last.before /\ Truthy(last.before[FIRST])) =>
       LET Same(direct) == last.exc = "" /\ direct.exc = "" /\ last.val = Plain(direct.val)
       IN Same(call_eval_text(<<"(", "c", "o", "n", "t", "e", "x", "t", "~", " ", "0", ")">>, TheStory, NewWorld(last.before), 1,
                              last.input.context, TheFinder))
  /\ (last.op = "eval_macro" /\ last.input.name \in {<<"t", "e", "x", "t">>, <<"s", "e", "l", "e", "c", "t">>, <<"o", "n", "c", "e">>, <<"a", "g", "a", "i", "n">>}
        /\ last.input.mf.present /\ last.exc = "" /\ CONTEXT \in DOMAIN last.state) =>
       last.state[CONTEXT] # FinderValue(last.input.mf)

(***************************************************************************)
(* Further properties of the parser (SpecParse)                            *)
(***************************************************************************)
\* C25: "target [ tokens ]" parses to an index node with two arguments, the
\* second of which is the parse, as an expression of its own, of all the
\* tokens between the opening bracket and the closing bracket that matches
\* it.
C25_IndexSubExpression ==
  (pout # NoParse /\ pin.kind = "units" /\ pin.units \in IndexForms) =>
    LET Indexed(inner) ==
          /\ pout.r.exc = ""
          /\ inner.exc = ""
          /\ IF pout.r.exc = "" /\ inner.exc = ""
             THEN /\ pout.r.val.op = "["
                  /\ Len(pout.r.val.args) = 2
                  /\ pout.r.val.args[1].op = "value"
                  /\ pout.r.val.args[2] = inner.val
             ELSE FALSE
    IN Indexed(parse_units(SubSeq(pin.units, 3, Len(pin.units) - 1), FALSE))

(***************************************************************************)
(* The lexer and the argument splitter on their own (SpecLex): the text is *)
(* drawn at the start (pin) and the call leaves what it returned, or the   *)
(* exception it raised, in pout.                                           *)
(***************************************************************************)
\* the most pieces an expression or a call body is made of
MaxPieces == 3

\* the pieces of an expression: numbers, a word, operators, a space
LexPieces == {<<"1">>, <<"2">>, <<"+">>, <<"-">>, <<" ">>, <<"x">>, <<"=", "=">>}

\* the pieces of a call body: words, the delimiter, a quoted region that
\* holds a delimiter and a nested call that holds one
BodyPieces == {<<"a">>, <<"b">>, <<"~">>, <<Backquote, "c", "~", "d", Backquote>>, <<"(", "f", "~", " ", "e", ")">>}

LexInputs ==
  {[kind |-> "lex", expr |-> Concat(ps)] :
     ps \in UNION {[1..n -> LexPieces] : n \in 0..MaxPieces}}
  \cup {[kind |-> "split", pieces |-> ps, content |-> Concat(ps)] :
          ps \in UNION {[1..n -> BodyPieces] : n \in 0..MaxPieces}}

InitLex ==
  /\ state = <<>>
  /\ last = [op |-> "none"]
  /\ steps = 0
  /\ pin \in LexInputs
  /\ pout = NoParse

\* lex_expr(expr)
DoLexExpr ==
  /\ pin.kind = "lex"
  /\ pout = NoParse
  /\ pout' = [kind |-> "result", r |-> lex_expr(pin.expr)]
  /\ UNCHANGED <<state, last, steps, pin>>

\* split_macro_args(content)
DoSplitMacroArgs ==
  /\ pin.kind = "split"
  /\ pout = NoParse
  /\ pout' = [kind |-> "result", r |-> split_macro_args(pin.content)]
  /\ UNCHANGED <<state, last, steps, pin>>

NextLex == DoLexExpr \/ DoSplitMacroArgs

SpecLex == InitLex /\ [][NextLex]_vars

\* the arguments of a body given by its pieces: a delimiter piece ends the
\* current argument, any other piece (a word, a quoted region, a nested
\* call) is added to it whole
RECURSIVE ArgumentsOf(_, _, _)
ArgumentsOf(ps, current, done) ==
  IF ps = <<>> THEN Append(done, current)
  ELSE IF Head(ps) = <<"~">> THEN ArgumentsOf(Tail(ps), <<>>, Append(done, current))
  ELSE ArgumentsOf(Tail(ps), current \o Head(ps), done)

\* a body without its single trailing delimiter
WithoutTrailingDelimiter(s) ==
  IF s # <<>> /\ s[Len(s)] = "~" THEN SubSeq(s, 1, Len(s) - 1) ELSE s

\* C26: split_macro_args cuts a call body exactly at the delimiters outside
\* quoted regions and nested calls: the arguments are the runs of pieces
\* between the delimiter pieces (an empty argument after a trailing delimiter
\* is not returned), and joined with the delimiter they give back the body
\* up to a single trailing delimiter.
C26_SplitMacroArgs ==
  (pout # NoParse /\ pin.kind = "split") =>
    /\ pout.r.exc = ""
    /\ IF pout.r.exc = ""
       THEN /\ pout.r.val \in {ArgumentsOf(pin.pieces, <<>>, <<>>),
                               ArgumentsOf(WithoutTrailingDelimiter(pin.pieces), <<>>, <<>>)}
            /\ Join(<<"~">>, pout.r.val) \in {pin.content, WithoutTrailingDelimiter(pin.content)}
       ELSE FALSE

\* the characters a unit stands for
Spelling(u) ==
  CASE u.ut = "int" -> IntStr(u.n)
    [] u.ut = "op" -> <<u.sym>>
    [] OTHER -> u.s

\* the characters of an expression that are not whitespace, "==" written "="
RECURSIVE Significant(_)
Significant(expr) ==
  IF expr = <<>> THEN <<>>
  ELSE IF Head(expr) \in LexSpace THEN Significant(Tail(expr))
  ELSE IF Len(expr) >= 2 /\ SubSeq(expr, 1, 2) = <<"=", "=">> THEN <<"=">> \o Significant(SubSeq(expr, 3, Len(expr)))
  ELSE <<Head(expr)>> \o Significant(Tail(expr))

\* C27: the units lex_expr returns spell, in order, every character of the
\* expression that is not whitespace ("==" spelled "="), and "1+2" and
\* "1 + 2" both give int 1, op "+", int 2.
C27_LexerLosesNoInput ==
  (pout # NoParse /\ pin.kind = "lex") =>
    /\ pout.r.exc = ""
    /\ IF pout.r.exc = ""
       THEN /\ Concat([k \in DOMAIN pout.r.val |-> Spelling(pout.r.val[k])]) = Significant(pin.expr)
            /\ (pin.expr \in {<<"1", "+", "2">>, <<"1", " ", "+", " ", "2">>} =>
                  pout.r.val = <<Unit("int", 1), Unit("op", "+"), Unit("int", 2)>>)
       ELSE FALSE

====
